---- MODULE Spec2Model ----
(***************************************************************************)
(* Retrieval-and-demux pipeline of the S3 ES downloader and parser:        *)
(* the naming codec (src/src/utils.py), the manifest builder and the       *)
(* concurrent retrieval engine (src/src/s3_reader.py).                     *)
(***************************************************************************)
EXTENDS Integers, Sequences, FiniteSets, TLC

(***************************************************************************)
(* Program constants                                                       *)
(***************************************************************************)
SECONDS_PER_HOUR == 3600
INTERVAL_S == 4
DEFAULT_DURATION_S == 4
MAX_DOWNLOAD_WORKERS == 10
S3_DOWNLOAD_RETRIES == 3
ES_HEADER_SIZE_BYTES == 27
CHECKPOINT_EVERY == 10

(***************************************************************************)
(* Bounds of the model                                                     *)
(***************************************************************************)
\* window starts range over SECONDS_PER_HOUR - MaxBack .. SECONDS_PER_HOUR + MaxBack
MaxBack == 4
\* window lengths range over 1 .. MaxSpan seconds
MaxSpan == 9
\* the retrieval engine is explored for window starts up to this far
\* from the hour boundary (a sub-range of the manifest's windows)
MaxBackFetch == 1
\* process runs: the first start and the restarts with --resume
MaxRuns == 2
\* files in the list handed to the parser
MaxFiles == 2
\* complete records per file
MaxRecs == 2
\* payload bytes per record
MaxPayload == 2
\* buffer_size ranges over 0 .. MaxBuf
MaxBuf == 2

VARIABLES
    start_utc_s,            \* S3Reader.start_utc_s
    end_utc_s,              \* S3Reader.end_utc_s
    current_utc,            \* _prepare_file_list: cursor of the walk
    expected_files,         \* _prepare_file_list: relative paths seen
    files_to_download_map,  \* S3Reader.files_to_download_map, in insertion order
    rpc,                    \* position of the retrieval engine's main thread
    disk,                   \* local temp storage: relative path -> file content, for the files present
    state_file,             \* content of the sidecar <output>.state (NoState: absent)
    downloaded_files,       \* S3Reader.downloaded_files
    files_found_locally,    \* S3Reader.files_found_locally
    files_failed,           \* S3Reader.files_failed
    files_needing_download, \* download_files_parallel: entries submitted to the pool
    files_actually_downloaded, \* download_files_parallel: local counter
    task,                   \* per submitted entry: the worker's _download_file_from_s3 frame
    collected,              \* futures already consumed by the as_completed loop
    returned,               \* value returned by download_files_parallel (meaningful once rpc = "returned")
    resume,                 \* args.resume: resume_state_file is set iff TRUE
    store_state,            \* what the file system allows at the sidecar path
    previous_state,         \* main: the snapshot loaded at process start (NoState: none)
    run,                    \* number of the process run (1: first start)
    remote,                 \* the object store: relative path -> content of the object
    cleanup,                \* args.cleanup
    buffer_size,            \* ESParser.buffer_size
    ppc,                    \* position of the parser (process_files)
    file_idx,               \* process_files: the enumerate index i (from 0)
    f_pos,                  \* _process_single_es_file: read position of f_in
    packets_in_file,        \* _process_single_es_file: local counter
    bytes_in_file,          \* _process_single_es_file: local counter
    write_buffer,           \* ESParser._write_buffer[:_buffer_position]
    buffer_position,        \* ESParser._buffer_position
    ts_dump,                \* bytes of the output artifact on disk
    ts_dump_exists,         \* os.path.exists(ts_dump_file_path)
    handle_open,            \* output_file_handle is an open file
    total_packets_processed,
    total_bytes_processed,
    total_files_processed,
    total_files_skipped,
    total_files_failed,
    output_bytes_written,
    size_at_open,           \* history: size of the artifact when process_files opened it
    outcomes,               \* history: per file of the list, the counter the loop incremented
    call                    \* a call of a utils.py function made on its own: function, arguments, result

winvars  == <<start_utc_s, end_utc_s>>
prepvars == <<current_utc, expected_files, files_to_download_map>>
dlvars   == <<downloaded_files, files_found_locally, files_failed,
              files_needing_download, files_actually_downloaded, task,
              collected, returned>>
procvars == <<resume, previous_state, run>>

rvars == <<winvars, prepvars, dlvars, procvars, rpc, disk, state_file>>

statvars == <<total_packets_processed, total_bytes_processed,
              total_files_processed, total_files_skipped, total_files_failed>>
outvars  == <<write_buffer, buffer_position, ts_dump, ts_dump_exists,
              handle_open, output_bytes_written, size_at_open>>
filevars == <<file_idx, f_pos, packets_in_file, bytes_in_file, outcomes>>
cfgvars  == <<remote, cleanup, buffer_size, store_state>>

pvars == <<cfgvars, ppc, filevars, outvars, statvars>>

vars == <<rvars, pvars, call>>

NoState == [absent |-> TRUE]

\* no function of utils.py is being called on its own
NoCall == [op |-> "none", args |-> <<>>, done |-> TRUE, result |-> <<>>]

\* a function about to be called on its own with the given arguments
PendingCall(op, args) == [op |-> op, args |-> args, done |-> FALSE, result |-> <<>>]

(***************************************************************************)
(* Helpers on sequences                                                    *)
(***************************************************************************)
SeqToSet(s) == {s[i] : i \in DOMAIN s}

Contains(s, x) == \E i \in DOMAIN s : s[i] = x

RECURSIVE Concat(_)
Concat(ss) == IF ss = <<>> THEN <<>> ELSE Head(ss) \o Concat(Tail(ss))

(***************************************************************************)
(* Naming codec (src/src/utils.py)                                         *)
(***************************************************************************)
\* A path is a text: a sequence of characters, each a one-character string.
DigitChars == <<"0", "1", "2", "3", "4", "5", "6", "7", "8", "9">>

IsDigit(c) == c \in {"0", "1", "2", "3", "4", "5", "6", "7", "8", "9"}

DigitValue(c) == (CHOOSE d \in DOMAIN DigitChars : DigitChars[d] = c) - 1

\* the decimal text of an int, as an f-string writes it
RECURSIVE str(_)
str(n) ==
    IF n < 0 THEN <<"-">> \o str(0 - n)
    ELSE IF n < 10 THEN <<DigitChars[n + 1]>>
    ELSE Append(str(n \div 10), DigitChars[(n % 10) + 1])

\* int() of the decimal digits text[first .. last], read left to right
RECURSIVE IntOfRange(_, _, _, _)
IntOfRange(text, first, last, value) ==
    IF first > last THEN value
    ELSE IntOfRange(text, first + 1, last, 10 * value + DigitValue(text[first]))

\* int() of a run of decimal digits
int(text) == IntOfRange(text, 1, Len(text), 0)

\* zero padding of strftime's fixed-width fields
RECURSIVE ZeroPad(_, _)
ZeroPad(text, width) ==
    IF Len(text) >= width THEN text ELSE ZeroPad(<<"0">> \o text, width)

\* lengths of the months of 1970, the year every instant of the model lies in
MonthLengths == <<31, 28, 31, 30, 31, 30, 31, 31, 30, 31, 30, 31>>

\* month (1..12) and day of month (1..) of the day_of_year-th day (from 0)
RECURSIVE MonthAndDay(_, _)
MonthAndDay(day_of_year, month) ==
    IF month < 12 /\ day_of_year >= MonthLengths[month]
    THEN MonthAndDay(day_of_year - MonthLengths[month], month + 1)
    ELSE [month |-> month, day |-> day_of_year + 1]

\* datetime.fromtimestamp(epoch, utc).strftime("%d%m%Y") for an instant of 1970
strftime_date(epoch) ==
    LET md == MonthAndDay(epoch \div (24 * SECONDS_PER_HOUR), 1)
    IN  ZeroPad(str(md.day), 2) \o ZeroPad(str(md.month), 2) \o <<"1", "9", "7", "0">>

\* strftime("%H")
strftime_hour(epoch) == ZeroPad(str((epoch \div SECONDS_PER_HOUR) % 24), 2)

\* the instant itself taken as the start of its interval
Mutant_get_file_path_to_read_Unaligned(base_utc) ==
    strftime_date(base_utc) \o <<"/">> \o strftime_hour(base_utc) \o <<"/">>
       \o str(base_utc) \o <<"-">> \o str(base_utc + INTERVAL_S) \o <<".", "e", "s">>

\* the end epoch written one second late
Mutant_get_file_path_to_read_LongName(base_utc) ==
    LET start_epoch == base_utc - ((base_utc % SECONDS_PER_HOUR) % INTERVAL_S)
    IN  strftime_date(start_epoch) \o <<"/">> \o strftime_hour(start_epoch) \o <<"/">>
           \o str(start_epoch) \o <<"-">> \o str(start_epoch + INTERVAL_S + 1)
           \o <<".", "e", "s">>

\* The relative path "ddmmYYYY/HH/<start>-<end>.es" of the interval an
\* instant falls into
get_file_path_to_read(base_utc) ==
    LET seconds_past_hour     == base_utc % SECONDS_PER_HOUR
        seconds_into_interval == seconds_past_hour % INTERVAL_S
        interval_start_utc    == base_utc - seconds_into_interval
        start_epoch           == interval_start_utc
        end_epoch             == start_epoch + INTERVAL_S
    IN  strftime_date(start_epoch) \o <<"/">> \o strftime_hour(start_epoch) \o <<"/">>
           \o str(start_epoch) \o <<"-">> \o str(end_epoch) \o <<".", "e", "s">>

\* position of the last separator at or before position i (0: none)
RECURSIVE LastSeparator(_, _)
LastSeparator(path, i) ==
    IF i = 0 \/ path[i] = "/" THEN i ELSE LastSeparator(path, i - 1)

\* os.path.basename: what follows the last separator
basename(path) == SubSeq(path, LastSeparator(path, Len(path)) + 1, Len(path))

\* position after the run of digits that starts at position i
RECURSIVE EndOfDigits(_, _)
EndOfDigits(text, i) ==
    IF i > Len(text) \/ ~IsDigit(text[i]) THEN i ELSE EndOfDigits(text, i + 1)

\* re.match(r'(\d+)-(\d+)\.es$', text): anchored at the start; $ matches at
\* the end and before a final newline
re_match(text) ==
    LET dash == EndOfDigits(text, 1)
        dot  == EndOfDigits(text, dash + 1)
    IN  IF /\ dash > 1
           /\ dash <= Len(text)
           /\ text[dash] = "-"
           /\ dot > dash + 1
           /\ SubSeq(text, dot, Len(text))
                 \in {<<".", "e", "s">>, <<".", "e", "s", "\n">>}
        THEN [matched |-> TRUE,
              group1  |-> SubSeq(text, 1, dash - 1),
              group2  |-> SubSeq(text, dash + 1, dot - 1)]
        ELSE [matched |-> FALSE, group1 |-> <<>>, group2 |-> <<>>]

\* the pattern matched against the whole path instead of its base name
Mutant_get_file_duration_WholePath(file_path_or_name) ==
    LET match == re_match(file_path_or_name)
    IN  IF match.matched /\ int(match.group2) - int(match.group1) > 0
        THEN int(match.group2) - int(match.group1)
        ELSE DEFAULT_DURATION_S

\* get_file_duration (utils.py 78-101)
get_file_duration(file_path_or_name) ==
    LET filename == basename(file_path_or_name)
        match    == re_match(filename)
    IN  IF match.matched
        THEN LET start_epoch == int(match.group1)
                 end_epoch   == int(match.group2)
                 duration    == end_epoch - start_epoch
             IN  IF duration > 0 THEN duration ELSE DEFAULT_DURATION_S
        ELSE DEFAULT_DURATION_S

\* the pattern matched against the whole path instead of its base name
Mutant_get_start_utc_from_filename_WholePath(filename) ==
    LET match == re_match(filename)
    IN  IF match.matched THEN int(match.group1) ELSE 0

\* a name that does not match given the largest key instead of 0
Mutant_get_start_utc_from_filename_Last(filename) ==
    LET match == re_match(basename(filename))
    IN  IF match.matched THEN int(match.group1) ELSE 1000000

\* get_start_utc_from_filename (utils.py 130-149)
get_start_utc_from_filename(filename) ==
    LET match == re_match(basename(filename))
    IN  IF match.matched THEN int(match.group1) ELSE 0

\* get_s3_path (utils.py 59-76): a separator is added to a prefix that does
\* not end with one, one separator is removed from a relative path that
\* starts with one
get_s3_path(s3_prefix, rel_path) ==
    LET prefix == IF s3_prefix = <<>> \/ s3_prefix[Len(s3_prefix)] # "/"
                  THEN s3_prefix \o <<"/">> ELSE s3_prefix
        rel    == IF rel_path # <<>> /\ rel_path[1] = "/"
                  THEN Tail(rel_path) ELSE rel_path
    IN  prefix \o rel

\* end epoch of a file name (start epoch plus the duration read from the name)
EndEpochOf(path) == get_start_utc_from_filename(path) + get_file_duration(path)

(***************************************************************************)
(* Manifest builder: S3Reader.__init__ and _prepare_file_list              *)
(***************************************************************************)
WindowStarts(back) == (SECONDS_PER_HOUR - back) .. (SECONDS_PER_HOUR + back)

\* relative paths a window can name at all (one per instant of the window)
CandidatePaths(s, e) == {get_file_path_to_read(t) : t \in s .. (e - 1)}

ReaderIdle ==
    /\ downloaded_files = <<>>
    /\ files_found_locally = 0
    /\ files_failed = 0
    /\ files_needing_download = <<>>
    /\ files_actually_downloaded = 0
    /\ task = <<>>
    /\ collected = {}
    /\ returned = <<>>

InitWindow(back) ==
    /\ start_utc_s \in WindowStarts(back)
    /\ end_utc_s \in (start_utc_s + 1) .. (start_utc_s + MaxSpan)
    /\ current_utc = start_utc_s
    /\ expected_files = {}
    /\ files_to_download_map = <<>>
    /\ rpc = "prepare"
    /\ ReaderIdle

\* the walk advancing second by second and adding the path of every
\* instant, known or not
Mutant_PrepareStep_EverySecond ==
    /\ rpc = "prepare"
    /\ current_utc < end_utc_s
    /\ LET rel_path == get_file_path_to_read(current_utc)
       IN  /\ files_to_download_map' = Append(files_to_download_map, rel_path)
           /\ expected_files' = expected_files \cup {rel_path}
           /\ current_utc' = current_utc + 1
    /\ UNCHANGED <<winvars, dlvars, procvars, rpc, disk, state_file>>
    /\ UNCHANGED pvars
    /\ UNCHANGED call

\* one iteration of the while loop of _prepare_file_list
PrepareStep ==
    /\ rpc = "prepare"
    /\ current_utc < end_utc_s
    /\ \E rel_path \in {get_file_path_to_read(current_utc)} :
       \E parsed \in {get_file_duration(rel_path)} :
          LET duration == IF parsed <= 0 THEN 1 ELSE parsed
          IN  /\ IF rel_path \notin expected_files
                 THEN /\ files_to_download_map' = Append(files_to_download_map, rel_path)
                      /\ expected_files' = expected_files \cup {rel_path}
                 ELSE UNCHANGED <<files_to_download_map, expected_files>>
              /\ current_utc' = current_utc + duration
    /\ UNCHANGED <<winvars, dlvars, procvars, rpc, disk, state_file>>
    /\ UNCHANGED pvars
    /\ UNCHANGED call

\* the loop condition fails: the constructor returns
PrepareDone ==
    /\ rpc = "prepare"
    /\ ~(current_utc < end_utc_s)
    /\ rpc' = "ready"
    /\ UNCHANGED <<winvars, prepvars, dlvars, procvars, disk, state_file>>
    /\ UNCHANGED pvars
    /\ UNCHANGED call

(***************************************************************************)
(* File content.  A container file holds complete records, each a header   *)
(* and its payload, possibly followed by a truncated record.               *)
(***************************************************************************)
NoTail == [kind |-> "none"]

\* a file without records
EmptyFile == [readable |-> TRUE, recs |-> <<>>, tail |-> NoTail]

\* the object the store returns for a relative path
RemoteObject(path) == remote[path]

(***************************************************************************)
(* Progress store (src/src/utils.py)                                       *)
(***************************************************************************)
\* "key in state": a snapshot is a record, its keys the record's fields
HasKey(state, key) == key \in DOMAIN state

\* truthiness of a loaded snapshot: None and {} are both falsy
IsTruthy(state) == state # NoState

\* the sidecar path: writable and readable ("ok"), not writable
\* ("readonly"), writable but out of space ("full"), or not accessible at
\* all ("unreadable")
StoreStates == {"ok", "readonly", "full", "unreadable"}

\* the decimal text json.dump writes for a non-negative int
RECURSIVE DecimalDigits(_)
DecimalDigits(n) ==
    IF n < 10 THEN <<n>> ELSE Append(DecimalDigits(n \div 10), n % 10)

\* the int json.load reads from decimal text
RECURSIVE IntFromDigits(_)
IntFromDigits(digits) ==
    IF digits = <<>> THEN 0
    ELSE 10 * IntFromDigits(SubSeq(digits, 1, Len(digits) - 1)) + digits[Len(digits)]

\* keys of the snapshots whose values are lists of paths, and booleans
ArrayKeys == {"downloaded_files", "processed_files"}
LiteralKeys == {"completed"}

\* json.dump of one value: a list becomes an array of strings, a bool the
\* literal true or false, an int its decimal text
json_encode(key, value) ==
    CASE key \in ArrayKeys -> [array |-> value]
      [] key \in LiteralKeys -> [literal |-> IF value THEN "true" ELSE "false"]
      [] OTHER -> [number |-> DecimalDigits(value)]

\* json.load of one value
json_decode(text) ==
    IF "array" \in DOMAIN text THEN text.array
    ELSE IF "literal" \in DOMAIN text THEN text.literal = "true"
    ELSE IntFromDigits(text.number)

\* json.dump: the JSON object, one member per key of the dict
json_dump(progress_data) ==
    [closed |-> TRUE,
     members |-> {<<k, json_encode(k, progress_data[k])>> : k \in DOMAIN progress_data}]

\* what open(state_file, 'w') leaves when the write that follows fails
PartialDocument == [closed |-> FALSE, members |-> {}]

\* json.load of a complete document
json_load(document) ==
    [k \in {m[1] : m \in document.members} |->
        json_decode((CHOOSE m \in document.members : m[1] = k)[2])]

\* the document of an earlier save kept when the file is written again
Mutant_save_progress_state_KeepsOld(progress_data) ==
    CASE store_state = "ok" ->
           [returns |-> TRUE,
            content |-> [closed |-> TRUE,
                         members |-> json_dump(progress_data).members
                                       \cup (IF state_file = NoState THEN {}
                                             ELSE state_file.members)]]
      [] store_state = "full" -> [returns |-> FALSE, content |-> PartialDocument]
      [] OTHER -> [returns |-> FALSE, content |-> state_file]

\* save_progress_state (utils.py 269-287): the value returned and the content
\* of the file afterwards; open(..., 'w') truncates, any exception is
\* caught and False returned
save_progress_state(progress_data) ==
    CASE store_state = "ok" -> [returns |-> TRUE, content |-> json_dump(progress_data)]
      [] store_state = "full" -> [returns |-> FALSE, content |-> PartialDocument]
      [] OTHER -> [returns |-> FALSE, content |-> state_file]

\* a document cut short read as if it were complete
Mutant_load_progress_state_NoChecks(content) ==
    IF content = NoState THEN NoState ELSE json_load(content)

\* load_progress_state (utils.py 289-311): the dict, or {} (NoState) when
\* the file is missing, is not valid JSON or cannot be read
load_progress_state(content) ==
    IF store_state = "unreadable" \/ content = NoState
    THEN NoState
    ELSE IF ~content.closed THEN NoState ELSE json_load(content)

(***************************************************************************)
(* Retrieval engine: S3Reader.resume_from_state, _download_file_from_s3,   *)
(* download_files_parallel                                                 *)
(***************************************************************************)
Exists(path) == path \in DOMAIN disk

RECURSIVE Filter(_, _)
\* the entries of s whose path is in the set keep, in order
Filter(s, keep) ==
    IF s = <<>> THEN <<>>
    ELSE IF Head(s) \in keep THEN <<Head(s)>> \o Filter(Tail(s), keep)
         ELSE Filter(Tail(s), keep)

\* the sort key taken in descending order
Mutant_InsertByStart_Descending(x, s) ==
    LET k == Cardinality({j \in DOMAIN s :
                 get_start_utc_from_filename(s[j]) >= get_start_utc_from_filename(x)})
    IN  SubSeq(s, 1, k) \o <<x>> \o SubSeq(s, k + 1, Len(s))

\* list.sort(key=get_start_utc_from_filename): a stable sort, ascending
InsertByStart(x, s) ==
    LET k == Cardinality({j \in DOMAIN s :
                 get_start_utc_from_filename(s[j]) <= get_start_utc_from_filename(x)})
    IN  SubSeq(s, 1, k) \o <<x>> \o SubSeq(s, k + 1, Len(s))

RECURSIVE SortByStart(_)
SortByStart(s) ==
    IF s = <<>> THEN <<>>
    ELSE InsertByStart(s[Len(s)], SortByStart(SubSeq(s, 1, Len(s) - 1)))

\* the sort left out: the list in arrival order
Mutant_SortedForReturn(files) == files

\* the list download_files_parallel hands back (line 266)
SortedForReturn(files) == SortByStart(files)

IsSortedByStart(s) ==
    \A j \in 1 .. (Len(s) - 1) :
        get_start_utc_from_filename(s[j]) <= get_start_utc_from_filename(s[j + 1])

\* state_data.get(key, default)
Get(state_data, key, default) ==
    IF HasKey(state_data, key) THEN state_data[key] ELSE default

\* every entry of the snapshot's list kept, on disk or not
Mutant_S3Reader_resume_from_state_KeepsMissing(state_data) ==
    [returns             |-> IsTruthy(state_data),
     downloaded_files    |-> Get(state_data, "downloaded_files", downloaded_files),
     files_found_locally |-> Get(state_data, "files_found_locally", files_found_locally),
     files_failed        |-> Get(state_data, "files_failed", files_failed)]

\* S3Reader.resume_from_state (s3_reader.py 285-317): the value returned and
\* the engine's list and counters afterwards
S3Reader_resume_from_state(state_data) ==
    IF ~IsTruthy(state_data)
    THEN [returns             |-> FALSE,
          downloaded_files    |-> downloaded_files,
          files_found_locally |-> files_found_locally,
          files_failed        |-> files_failed]
    ELSE [returns             |-> TRUE,
          downloaded_files    |-> Filter(Get(state_data, "downloaded_files", <<>>),
                                         DOMAIN disk),
          files_found_locally |-> Get(state_data, "files_found_locally", 0),
          files_failed        |-> Get(state_data, "files_failed", 0)]

\* main.py 145-147: resume the engine when the loaded snapshot carries a file list
MainResume ==
    /\ rpc = "ready"
    /\ rpc' = "start"
    /\ IF IsTruthy(previous_state) /\ HasKey(previous_state, "downloaded_files")
       THEN LET after == S3Reader_resume_from_state(previous_state)
            IN  /\ downloaded_files' = after.downloaded_files
                /\ files_found_locally' = after.files_found_locally
                /\ files_failed' = after.files_failed
       ELSE UNCHANGED <<downloaded_files, files_found_locally, files_failed>>
    /\ UNCHANGED <<files_needing_download, files_actually_downloaded, task,
                   collected, returned>>
    /\ UNCHANGED <<winvars, prepvars, procvars, disk, state_file>>
    /\ UNCHANGED pvars
    /\ UNCHANGED call

NewTask(path) ==
    [path |-> path, st |-> "queued", attempt |-> 0, sleeps |-> 0,
     log |-> <<>>, result |-> "none"]

\* download_files_parallel 196-216: the local-existence partition and the
\* submission of one task per remaining entry
DownloadStart ==
    /\ rpc = "start"
    /\ LET existing == Filter(files_to_download_map, DOMAIN disk)
           needing  == Filter(files_to_download_map,
                              SeqToSet(files_to_download_map) \ DOMAIN disk)
       IN  /\ downloaded_files' = downloaded_files \o existing
           /\ files_found_locally' = files_found_locally + Len(existing)
           /\ files_needing_download' = needing
           /\ task' = [i \in 1 .. Len(needing) |-> NewTask(needing[i])]
    /\ files_actually_downloaded' = 0
    /\ collected' = {}
    /\ rpc' = "collect"
    /\ UNCHANGED <<files_failed, returned>>
    /\ UNCHANGED <<winvars, prepvars, procvars, disk, state_file>>
    /\ UNCHANGED pvars
    /\ UNCHANGED call

\* a task waiting between two attempts counted as holding no worker
Mutant_Active_SleepersFree == {}

\* tasks holding a worker of the pool
Active == {i \in DOMAIN task : task[i].st = "sleeping"}

Outcomes == {"ok", "404", "403", "error"}

\* a not-found or access-denied answer handled like any other error
Mutant_AfterAttempt_RetryPermanent(t, outcome) ==
    LET attempt == t.attempt + 1
        logged  == [t EXCEPT !.attempt = attempt, !.log = Append(t.log, outcome)]
    IN  IF outcome = "ok" THEN [logged EXCEPT !.st = "done", !.result = "True"]
        ELSE IF attempt < S3_DOWNLOAD_RETRIES
             THEN [logged EXCEPT !.st = "sleeping", !.sleeps = t.sleeps + 1]
             ELSE [logged EXCEPT !.st = "done", !.result = "False"]

\* the delay taken after every failed attempt, the last one included
Mutant_AfterAttempt_SleepAfterLast(t, outcome) ==
    LET attempt == t.attempt + 1
        logged  == [t EXCEPT !.attempt = attempt, !.log = Append(t.log, outcome)]
    IN  CASE outcome = "ok"  -> [logged EXCEPT !.st = "done", !.result = "True"]
          [] outcome = "404" -> [logged EXCEPT !.st = "done", !.result = "FileNotFoundError"]
          [] outcome = "403" -> [logged EXCEPT !.st = "done", !.result = "PermissionError"]
          [] OTHER ->
               IF attempt < S3_DOWNLOAD_RETRIES
               THEN [logged EXCEPT !.st = "sleeping", !.sleeps = t.sleeps + 1]
               ELSE [logged EXCEPT !.st = "done", !.result = "False",
                                   !.sleeps = t.sleeps + 1]

\* what one pass of the retry loop (lines 142-181) makes of the frame,
\* the attempt ending with the given outcome
AfterAttempt(t, outcome) ==
    LET attempt == t.attempt + 1
        logged  == [t EXCEPT !.attempt = attempt, !.log = Append(t.log, outcome)]
    IN  CASE outcome = "ok"  -> [logged EXCEPT !.st = "done", !.result = "True"]
          [] outcome = "404" -> [logged EXCEPT !.st = "done", !.result = "FileNotFoundError"]
          [] outcome = "403" -> [logged EXCEPT !.st = "done", !.result = "PermissionError"]
          [] OTHER ->
               IF attempt < S3_DOWNLOAD_RETRIES
               THEN [logged EXCEPT !.st = "sleeping", !.sleeps = t.sleeps + 1]
               ELSE [logged EXCEPT !.st = "done", !.result = "False"]

\* a worker runs one attempt of task i: taken from the queue (in
\* submission order, a worker being free) or woken from its delay
TaskAttempt(i, outcome) ==
    /\ rpc = "collect"
    /\ i \in DOMAIN task
    /\ \/ /\ task[i].st = "queued"
          /\ Cardinality(Active) < MAX_DOWNLOAD_WORKERS
          /\ \A j \in 1 .. (i - 1) : task[j].st # "queued"
       \/ task[i].st = "sleeping"
    /\ task[i].attempt < S3_DOWNLOAD_RETRIES
    /\ task' = [task EXCEPT ![i] = AfterAttempt(task[i], outcome)]
    /\ disk' = IF outcome = "ok"
               THEN [p \in DOMAIN disk \cup {task[i].path} |->
                        IF p = task[i].path THEN RemoteObject(p) ELSE disk[p]]
               ELSE disk
    /\ UNCHANGED <<downloaded_files, files_found_locally, files_failed,
                   files_needing_download, files_actually_downloaded,
                   collected, returned>>
    /\ UNCHANGED <<winvars, prepvars, procvars, rpc, state_file>>
    /\ UNCHANGED pvars
    /\ UNCHANGED call

\* one pass of the as_completed loop (lines 220-249) over a finished future
Collect(i) ==
    /\ rpc = "collect"
    /\ i \in DOMAIN task
    /\ task[i].st = "done"
    /\ i \notin collected
    /\ collected' = collected \cup {i}
    /\ IF task[i].result = "True"
       THEN /\ downloaded_files' = Append(downloaded_files, task[i].path)
            /\ files_actually_downloaded' = files_actually_downloaded + 1
            /\ UNCHANGED files_failed
       ELSE /\ files_failed' = files_failed + 1
            /\ UNCHANGED <<downloaded_files, files_actually_downloaded>>
    /\ UNCHANGED <<files_found_locally, files_needing_download, task, returned>>
    /\ UNCHANGED <<winvars, prepvars, procvars, rpc, disk, state_file>>
    /\ UNCHANGED pvars
    /\ UNCHANGED call

ReaderSnapshot(files) ==
    [downloaded_files |-> files,
     files_found_locally |-> files_found_locally,
     files_failed |-> files_failed]

\* the loop ended as soon as one future had been consumed
Mutant_AllConsumed_FirstCompleted == collected # {} \/ task = <<>>

\* the as_completed loop (220-249) has consumed the future of every
\* submitted task and the with block of the pool (211) can be left
AllConsumed == collected = DOMAIN task

\* download_files_parallel 251-283: every future consumed, the pool shut
\* down; summary, sort, snapshot, return
Finish ==
    /\ rpc = "collect"
    /\ AllConsumed
    /\ rpc' = "returned"
    /\ IF downloaded_files = <<>>
       THEN /\ returned' = <<>>
            /\ UNCHANGED <<downloaded_files, state_file>>
       ELSE LET sorted == SortedForReturn(downloaded_files)
            IN  /\ downloaded_files' = sorted
                /\ returned' = sorted
                /\ state_file' = IF resume
                                 THEN save_progress_state(ReaderSnapshot(sorted)).content
                                 ELSE state_file
    /\ UNCHANGED <<files_found_locally, files_failed, files_needing_download,
                   files_actually_downloaded, task, collected>>
    /\ UNCHANGED <<winvars, prepvars, procvars, disk>>
    /\ UNCHANGED pvars
    /\ UNCHANGED call

\* The parse that follows is interrupted before its first checkpoint (the
\* sidecar still holds the engine's snapshot; with cleanup the first file
\* of the list may already be removed) and the program is started again
\* with --resume, the same window and the same temp directory
\* (main.py 109-149).
Rerun(removed) ==
    /\ rpc = "returned"
    /\ run < MaxRuns
    /\ resume
    /\ returned # <<>>
    /\ IsTruthy(load_progress_state(state_file))
    /\ previous_state' = load_progress_state(state_file)
    /\ run' = run + 1
    /\ disk' = IF removed
               THEN [p \in DOMAIN disk \ {returned[1]} |-> disk[p]]
               ELSE disk
    /\ current_utc' = start_utc_s
    /\ expected_files' = {}
    /\ files_to_download_map' = <<>>
    /\ rpc' = "prepare"
    /\ downloaded_files' = <<>>
    /\ files_found_locally' = 0
    /\ files_failed' = 0
    /\ files_needing_download' = <<>>
    /\ files_actually_downloaded' = 0
    /\ task' = <<>>
    /\ collected' = {}
    /\ returned' = <<>>
    /\ UNCHANGED <<winvars, resume, state_file>>
    /\ UNCHANGED pvars
    /\ UNCHANGED call

(***************************************************************************)
(* Container format (src/src/es_parser.py 155-161): a record is a 27-byte  *)
(* header (1-byte start code, 2 bytes, 8-byte UTC ns, 8-byte PCR, 8-byte   *)
(* payload size, little-endian) followed by the payload.                   *)
(***************************************************************************)
Min(a, b) == IF a <= b THEN a ELSE b

RECURSIVE ToBytesLittle(_, _)
ToBytesLittle(n, width) ==
    IF width = 0 THEN <<>>
    ELSE <<n % 256>> \o ToBytesLittle(n \div 256, width - 1)

RECURSIVE IntFromBytesLittle(_)
\* int.from_bytes(b, "little")
IntFromBytesLittle(b) ==
    IF b = <<>> THEN 0 ELSE Head(b) + 256 * IntFromBytesLittle(Tail(b))

Header(payload_size) ==
    <<0>> \o <<0, 0>> \o ToBytesLittle(0, 8) \o ToBytesLittle(0, 8)
          \o ToBytesLittle(payload_size, 8)

RECURSIVE RecordsBytes(_)
RecordsBytes(recs) ==
    IF recs = <<>> THEN <<>>
    ELSE Header(Len(Head(recs))) \o Head(recs) \o RecordsBytes(Tail(recs))

\* the truncated record ending a file: part of a header, or a header and
\* fewer payload bytes than it declares
TailBytes(tail) ==
    CASE tail.kind = "header"  -> SubSeq(Header(tail.declared), 1, tail.count)
      [] tail.kind = "payload" -> Header(tail.declared) \o tail.present
      [] OTHER -> <<>>

\* the bytes of a file on disk
FileBytes(content) == RecordsBytes(content.recs) \o TailBytes(content.tail)

\* Payload bytes are opaque to the program; each byte of each file carries
\* a value of its own (its file, record and offset), above every value a
\* header of the model holds.
FileNo(path) == (get_start_utc_from_filename(path) \div INTERVAL_S) % (MaxFiles + 1)

TaggedByte(no, r, b) == 16 + (no * (MaxRecs + 1) + (r - 1)) * MaxPayload + (b - 1)

PayloadByte(path, r, b) == TaggedByte(FileNo(path), r, b)

PayloadOf(path, r, len) ==
    LET no == FileNo(path) IN [b \in 1 .. len |-> TaggedByte(no, r, b)]

PayloadBytesOfFile(path) ==
    LET no == FileNo(path)
    IN  {TaggedByte(no, r, b) : r \in 1 .. (MaxRecs + 1), b \in 1 .. MaxPayload}

\* sequences of at most MaxRecs payload lengths, each 0 .. MaxPayload
Shapes == UNION {[1 .. n -> 0 .. MaxPayload] : n \in 0 .. MaxRecs}

TailsOf(path, r) ==
    {NoTail}
    \cup {[kind |-> "header", declared |-> 1, count |-> ES_HEADER_SIZE_BYTES - 1]}
    \cup UNION {{[kind |-> "payload", declared |-> size,
                   present |-> PayloadOf(path, r, m)] : m \in 0 .. (size - 1)} :
                 size \in 1 .. MaxPayload}

ContentsOf(path) ==
    UNION {{[readable |-> TRUE,
             recs |-> [r \in DOMAIN shape |-> PayloadOf(path, r, shape[r])],
             tail |-> tl] : tl \in TailsOf(path, Len(shape) + 1)} :
           shape \in Shapes}

WellFormed(content) == content.tail.kind = "none"
Truncated(content) == content.tail.kind \in {"header", "payload"}

(***************************************************************************)
(* Stream demuxer: ESParser (src/src/es_parser.py)                         *)
(***************************************************************************)
\* f_in.read(n) at position pos
ReadBytes(bytes, pos, n) == SubSeq(bytes, pos + 1, Min(pos + n, Len(bytes)))

\* a short payload read taken for the whole payload
Mutant_ParseNext_PartialPayload(bytes, pos) ==
    LET header_bytes == ReadBytes(bytes, pos, ES_HEADER_SIZE_BYTES)
        payload_size == IntFromBytesLittle(SubSeq(header_bytes, 20, 27))
        ts_payload   == ReadBytes(bytes, pos + ES_HEADER_SIZE_BYTES, payload_size)
    IN  IF header_bytes = <<>>
        THEN [kind |-> "eof", size |-> 0, payload |-> <<>>]
        ELSE IF Len(header_bytes) < ES_HEADER_SIZE_BYTES
        THEN [kind |-> "short_header", size |-> 0, payload |-> <<>>]
        ELSE IF payload_size = 0
        THEN [kind |-> "zero", size |-> 0, payload |-> <<>>]
        ELSE [kind |-> "record", size |-> payload_size, payload |-> ts_payload]

\* a record of payload size zero taken for the end of the file
Mutant_ParseNext_ZeroEndsFile(bytes, pos) ==
    LET header_bytes == ReadBytes(bytes, pos, ES_HEADER_SIZE_BYTES)
        payload_size == IntFromBytesLittle(SubSeq(header_bytes, 20, 27))
        ts_payload   == ReadBytes(bytes, pos + ES_HEADER_SIZE_BYTES, payload_size)
    IN  IF header_bytes = <<>>
        THEN [kind |-> "eof", size |-> 0, payload |-> <<>>]
        ELSE IF Len(header_bytes) < ES_HEADER_SIZE_BYTES
        THEN [kind |-> "short_header", size |-> 0, payload |-> <<>>]
        ELSE IF payload_size <= 0
        THEN [kind |-> "invalid_size", size |-> payload_size, payload |-> <<>>]
        ELSE IF Len(ts_payload) < payload_size
        THEN [kind |-> "short_payload", size |-> payload_size, payload |-> <<>>]
        ELSE [kind |-> "record", size |-> payload_size, payload |-> ts_payload]

\* one pass of the while loop of _process_single_es_file up to the write
\* (lines 145-191): what the header and payload reads find at pos
ParseNext(bytes, pos) ==
    LET header_bytes == ReadBytes(bytes, pos, ES_HEADER_SIZE_BYTES)
        payload_size == IntFromBytesLittle(SubSeq(header_bytes, 20, 27))
        ts_payload   == ReadBytes(bytes, pos + ES_HEADER_SIZE_BYTES, payload_size)
    IN  IF header_bytes = <<>>
        THEN [kind |-> "eof", size |-> 0, payload |-> <<>>]
        ELSE IF Len(header_bytes) < ES_HEADER_SIZE_BYTES
        THEN [kind |-> "short_header", size |-> 0, payload |-> <<>>]
        ELSE IF payload_size < 0
        THEN [kind |-> "invalid_size", size |-> payload_size, payload |-> <<>>]
        ELSE IF payload_size = 0
        THEN [kind |-> "zero", size |-> 0, payload |-> <<>>]
        ELSE IF Len(ts_payload) < payload_size
        THEN [kind |-> "short_payload", size |-> payload_size, payload |-> <<>>]
        ELSE [kind |-> "record", size |-> payload_size, payload |-> ts_payload]

\* the buffered writer's state
Writer ==
    [out |-> ts_dump, buf |-> write_buffer, pos |-> buffer_position,
     written |-> output_bytes_written, size |-> buffer_size, open |-> handle_open]

\* a flush that leaves the buffer position where it was
Mutant_FlushBuffer_KeepPosition(w) ==
    IF w.pos > 0 /\ w.open
    THEN [w EXCEPT !.out = w.out \o SubSeq(w.buf, 1, w.pos),
                   !.written = w.written + w.pos]
    ELSE w

\* a flush that does not add the flushed bytes to output_bytes_written
Mutant_FlushBuffer_Uncounted(w) ==
    IF w.pos > 0 /\ w.open
    THEN [w EXCEPT !.out = w.out \o SubSeq(w.buf, 1, w.pos),
                   !.pos = 0,
                   !.buf = <<>>]
    ELSE w

\* _flush_buffer (lines 81-88)
FlushBuffer(w) ==
    IF w.pos > 0 /\ w.open
    THEN [w EXCEPT !.out = w.out \o SubSeq(w.buf, 1, w.pos),
                   !.written = w.written + w.pos,
                   !.pos = 0,
                   !.buf = <<>>]
    ELSE w

\* a payload that does not fit the free space written straight to the
\* handle, ahead of the bytes the buffer holds
Mutant_WriteTsChunk_DirectWithoutFlush(w, ts_payload) ==
    IF Len(ts_payload) + w.pos > w.size
    THEN [w EXCEPT !.out = w.out \o ts_payload,
                   !.written = w.written + Len(ts_payload)]
    ELSE LET w2 == [w EXCEPT !.buf = SubSeq(w.buf, 1, w.pos) \o ts_payload,
                             !.pos = w.pos + Len(ts_payload)]
         IN  IF w2.pos >= w2.size THEN FlushBuffer(w2) ELSE w2

\* a payload longer than the buffer written to the handle while the bytes
\* buffered before it stay in the buffer
Mutant_WriteTsChunk_LargeAheadOfBuffer(w, ts_payload) ==
    IF Len(ts_payload) > w.size
    THEN [w EXCEPT !.out = w.out \o ts_payload,
                   !.written = w.written + Len(ts_payload)]
    ELSE LET w1 == IF Len(ts_payload) + w.pos > w.size THEN FlushBuffer(w) ELSE w
             w2 == [w1 EXCEPT !.buf = SubSeq(w1.buf, 1, w1.pos) \o ts_payload,
                              !.pos = w1.pos + Len(ts_payload)]
         IN  IF w2.pos >= w2.size THEN FlushBuffer(w2) ELSE w2

\* _write_ts_chunk (lines 101-118), the handle being open
WriteTsChunk(w, ts_payload) ==
    LET w1 == IF Len(ts_payload) + w.pos > w.size THEN FlushBuffer(w) ELSE w
    IN  IF Len(ts_payload) > w.size
        THEN [w1 EXCEPT !.out = w1.out \o ts_payload,
                        !.written = w1.written + Len(ts_payload)]
        ELSE LET w2 == [w1 EXCEPT !.buf = SubSeq(w1.buf, 1, w1.pos) \o ts_payload,
                                  !.pos = w1.pos + Len(ts_payload)]
             IN  IF w2.pos >= w2.size THEN FlushBuffer(w2) ELSE w2

SetWriter(w) ==
    /\ ts_dump' = w.out
    /\ write_buffer' = w.buf
    /\ buffer_position' = w.pos
    /\ output_bytes_written' = w.written

file_list == returned

\* how process_files counted a file, with the packet and byte totals as
\* they stand when it moves on to the next one
Outcome(result) ==
    [result |-> result,
     packets |-> total_packets_processed,
     bytes |-> total_bytes_processed,
     write_error |-> FALSE,
     read_error |-> "none"]

CurrentPath == file_list[file_idx + 1]

\* the periodic snapshot of process_files (lines 284-294) after file i
Checkpoint(packets, bytes, files, written, i) ==
    [total_packets_processed |-> packets,
     total_bytes_processed |-> bytes,
     total_files_processed |-> files,
     output_bytes_written |-> written,
     processed_files |-> SubSeq(file_list, 1, i + 1)]

\* the final snapshot of process_files (lines 329-339)
FinalSnapshot ==
    [total_packets_processed |-> total_packets_processed,
     total_bytes_processed |-> total_bytes_processed,
     total_files_processed |-> total_files_processed,
     output_bytes_written |-> output_bytes_written',
     completed |-> TRUE]

\* end of one pass of the for loop (lines 277-294): the checkpoint, i + 1
AfterFile(packets, bytes, files, written) ==
    /\ state_file' =
          IF resume /\ file_idx % CHECKPOINT_EVERY = 0
          THEN save_progress_state(Checkpoint(packets, bytes, files, written, file_idx)).content
          ELSE state_file
    /\ file_idx' = file_idx + 1

\* the check of main.py 151 never taking the exit
Mutant_NothingAvailable_Never(available_files) == FALSE

\* "if not available_files" (main.py 151)
NothingAvailable(available_files) == available_files = <<>>

\* main.py 151-153: nothing to parse, main returns 1
MainNoFiles ==
    /\ rpc = "returned"
    /\ NothingAvailable(returned)
    /\ rpc' = "exit1"
    /\ UNCHANGED <<winvars, prepvars, dlvars, procvars, disk, state_file>>
    /\ UNCHANGED pvars
    /\ UNCHANGED call

\* the parser's counters as they stand
ParserCounters(returns, warned) ==
    [returns                 |-> returns,
     warned                  |-> warned,
     total_packets_processed |-> total_packets_processed,
     total_bytes_processed   |-> total_bytes_processed,
     total_files_processed   |-> total_files_processed,
     output_bytes_written    |-> output_bytes_written]

\* a snapshot whose recorded size differs from the artifact's refused
Mutant_ESParser_resume_from_state_Refuses(state_data) ==
    IF /\ IsTruthy(state_data)
       /\ ts_dump_exists
       /\ Len(ts_dump) = Get(state_data, "output_bytes_written", 0)
    THEN [returns                 |-> TRUE,
          warned                  |-> FALSE,
          total_packets_processed |-> Get(state_data, "total_packets_processed", 0),
          total_bytes_processed   |-> Get(state_data, "total_bytes_processed", 0),
          total_files_processed   |-> Get(state_data, "total_files_processed", 0),
          output_bytes_written    |-> Get(state_data, "output_bytes_written", 0)]
    ELSE ParserCounters(FALSE, IsTruthy(state_data) /\ ts_dump_exists)

\* ESParser.resume_from_state (es_parser.py 341-375): the value returned,
\* whether the size mismatch was logged, and the counters afterwards
ESParser_resume_from_state(state_data) ==
    IF ~IsTruthy(state_data) \/ ~ts_dump_exists
    THEN ParserCounters(FALSE, FALSE)
    ELSE LET actual_size == Len(ts_dump)
             expected    == Get(state_data, "output_bytes_written", 0)
         IN  [returns                 |-> TRUE,
              warned                  |-> actual_size # expected,
              total_packets_processed |-> Get(state_data, "total_packets_processed", 0),
              total_bytes_processed   |-> Get(state_data, "total_bytes_processed", 0),
              total_files_processed   |-> Get(state_data, "total_files_processed", 0),
              output_bytes_written    |-> expected]

\* main.py 156-162 and process_files 232-256: the parser is built, resumed
\* from the loaded snapshot if it carries parser counters, and opens the
\* output artifact
ParserStart ==
    /\ rpc = "returned"
    /\ ~NothingAvailable(file_list)
    /\ ppc = "idle"
    /\ LET after     == IF /\ IsTruthy(previous_state)
                           /\ HasKey(previous_state, "total_packets_processed")
                        THEN ESParser_resume_from_state(previous_state)
                        ELSE ParserCounters(FALSE, FALSE)
           file_mode == IF ts_dump_exists /\ resume THEN "ab" ELSE "wb"
       IN  /\ total_packets_processed' = after.total_packets_processed
           /\ total_bytes_processed' = after.total_bytes_processed
           /\ total_files_processed' = after.total_files_processed
           /\ ts_dump' = IF file_mode = "ab" THEN ts_dump ELSE <<>>
           /\ output_bytes_written' =
                 IF file_mode = "ab" THEN Len(ts_dump) ELSE after.output_bytes_written
           /\ size_at_open' = IF file_mode = "ab" THEN Len(ts_dump) ELSE 0
    /\ ts_dump_exists' = TRUE
    /\ handle_open' = TRUE
    /\ file_idx' = 0
    /\ ppc' = "loop"
    /\ UNCHANGED <<total_files_skipped, total_files_failed, write_buffer,
                   buffer_position, f_pos, packets_in_file, bytes_in_file,
                   outcomes, cfgvars>>
    /\ UNCHANGED rvars
    /\ UNCHANGED call

\* process_files 258-275 and _process_single_es_file 138-143: the next file
\* of the list is missing (skipped), cannot be opened (failed) or is opened
NextFile ==
    /\ ppc = "loop"
    /\ file_idx < Len(file_list)
    /\ IF ~Exists(CurrentPath)
       THEN /\ total_files_skipped' = total_files_skipped + 1
            /\ outcomes' = Append(outcomes, Outcome("skipped"))
            /\ AfterFile(total_packets_processed, total_bytes_processed,
                         total_files_processed, output_bytes_written)
            /\ UNCHANGED <<ppc, f_pos, packets_in_file, bytes_in_file,
                           total_files_failed>>
       ELSE IF ~disk[CurrentPath].readable
       THEN /\ total_files_failed' = total_files_failed + 1
            /\ outcomes' = Append(outcomes, Outcome("failed"))
            /\ packets_in_file' = 0
            /\ bytes_in_file' = 0
            /\ AfterFile(total_packets_processed, total_bytes_processed,
                         total_files_processed, output_bytes_written)
            /\ UNCHANGED <<ppc, f_pos, total_files_skipped>>
       ELSE /\ ppc' = "read"
            /\ f_pos' = 0
            /\ packets_in_file' = 0
            /\ bytes_in_file' = 0
            /\ UNCHANGED <<file_idx, outcomes, state_file, total_files_skipped,
                           total_files_failed>>
    /\ UNCHANGED <<total_packets_processed, total_bytes_processed,
                   total_files_processed, outvars, cfgvars>>
    /\ UNCHANGED <<winvars, prepvars, dlvars, procvars, rpc, disk>>
    /\ UNCHANGED call

\* one pass of the while loop that consumes a record (lines 145-210): a
\* zero-size record is counted, any other is written and counted
ReadRecord ==
    /\ ppc = "read"
    /\ LET step == ParseNext(FileBytes(disk[CurrentPath]), f_pos)
       IN  /\ step.kind \in {"zero", "record"}
           /\ IF step.kind = "record"
              THEN SetWriter(WriteTsChunk(Writer, step.payload))
              ELSE UNCHANGED <<ts_dump, write_buffer, buffer_position,
                               output_bytes_written>>
           /\ f_pos' = f_pos + ES_HEADER_SIZE_BYTES + step.size
           /\ packets_in_file' = packets_in_file + 1
           /\ bytes_in_file' = bytes_in_file + ES_HEADER_SIZE_BYTES + step.size
           /\ total_packets_processed' = total_packets_processed + 1
           /\ total_bytes_processed' =
                 total_bytes_processed + ES_HEADER_SIZE_BYTES + step.size
    /\ UNCHANGED <<ppc, file_idx, outcomes, ts_dump_exists, handle_open,
                   size_at_open, total_files_processed, total_files_skipped,
                   total_files_failed, cfgvars>>
    /\ UNCHANGED rvars
    /\ UNCHANGED call

\* whether _process_single_es_file reports success when its loop ends on
\* the given finding: every break (lines 146-153, 166-170, 184-191) falls
\* through to "success = True" (212-213); an IOError raised by the header
\* read is not caught inside the loop and reaches "except IOError" (215-217)
SuccessAfter(kind) == kind # "header_error"

\* the while loop ends (end of file, short header, invalid size, short
\* payload); process_files 261-294 counts the file and, on success with
\* cleanup, removes it
FinishFile ==
    /\ ppc = "read"
    /\ LET step == ParseNext(FileBytes(disk[CurrentPath]), f_pos)
       IN  /\ step.kind \notin {"zero", "record"}
           /\ IF SuccessAfter(step.kind)
              THEN /\ total_files_processed' = total_files_processed + 1
                   /\ outcomes' = Append(outcomes, Outcome("processed"))
                   /\ disk' = IF cleanup
                              THEN [p \in DOMAIN disk \ {CurrentPath} |-> disk[p]]
                              ELSE disk
                   /\ AfterFile(total_packets_processed, total_bytes_processed,
                                total_files_processed + 1, output_bytes_written)
                   /\ UNCHANGED total_files_failed
              ELSE /\ total_files_failed' = total_files_failed + 1
                   /\ outcomes' = Append(outcomes, Outcome("failed"))
                   /\ AfterFile(total_packets_processed, total_bytes_processed,
                                total_files_processed, output_bytes_written)
                   /\ UNCHANGED <<total_files_processed, disk>>
    /\ ppc' = "loop"
    /\ UNCHANGED <<f_pos, packets_in_file, bytes_in_file, total_packets_processed,
                   total_bytes_processed, total_files_skipped, outvars, cfgvars>>
    /\ UNCHANGED <<winvars, prepvars, dlvars, procvars, rpc>>
    /\ UNCHANGED call

\* process_files 296-339: the list is exhausted; final flush, the handle is
\* closed, the summary is logged and the final snapshot saved
FinishRun ==
    /\ ppc = "loop"
    /\ file_idx = Len(file_list)
    /\ SetWriter(FlushBuffer(Writer))
    /\ handle_open' = FALSE
    /\ state_file' = IF resume THEN save_progress_state(FinalSnapshot).content ELSE state_file
    /\ ppc' = "returned"
    /\ UNCHANGED <<ts_dump_exists, size_at_open, filevars, statvars, cfgvars>>
    /\ UNCHANGED <<winvars, prepvars, dlvars, procvars, rpc, disk>>
    /\ UNCHANGED call

\* _write_ts_chunk hands bytes to the output handle for this payload (a
\* flush of pending bytes, a direct write or the flush of the filled
\* buffer) rather than only copying it (lines 104-118)
WritesToHandle(w, ts_payload) == Len(ts_payload) + w.pos >= w.size

\* the writer's state when the first of those writes raises IOError: a
\* payload that fits the free space exactly has been copied to the buffer
\* before the flush is tried
AfterFailedWrite(w, ts_payload) ==
    IF Len(ts_payload) <= w.size /\ ~(Len(ts_payload) + w.pos > w.size)
    THEN [w EXCEPT !.buf = SubSeq(w.buf, 1, w.pos) \o ts_payload,
                   !.pos = w.pos + Len(ts_payload)]
    ELSE w

\* a write to the output handle raises IOError inside _write_ts_chunk:
\* re-raised at line 122, caught by "except IOError" of
\* _process_single_es_file (215-217), which returns False; process_files
\* 270-294 counts the file as failed and goes on
WriteFails ==
    /\ ppc = "read"
    /\ LET step == ParseNext(FileBytes(disk[CurrentPath]), f_pos)
       IN  /\ step.kind = "record"
           /\ WritesToHandle(Writer, step.payload)
           /\ SetWriter(AfterFailedWrite(Writer, step.payload))
    /\ total_files_failed' = total_files_failed + 1
    /\ outcomes' = Append(outcomes, [Outcome("failed") EXCEPT !.write_error = TRUE])
    /\ AfterFile(total_packets_processed, total_bytes_processed,
                 total_files_processed, output_bytes_written)
    /\ ppc' = "loop"
    /\ UNCHANGED <<f_pos, packets_in_file, bytes_in_file, total_packets_processed,
                   total_bytes_processed, total_files_processed,
                   total_files_skipped, ts_dump_exists, handle_open,
                   size_at_open, cfgvars>>
    /\ UNCHANGED <<winvars, prepvars, dlvars, procvars, rpc, disk>>
    /\ UNCHANGED call

\* a read of the input file raises IOError (an I/O error of the device):
\* f_in.read(ES_HEADER_SIZE_BYTES) at line 145, which "except IOError"
\* (215-217) turns into success = False, or f_in.read(payload_size) at line
\* 183, after a complete header declaring a positive size, which lines
\* 184-186 catch and answer with break; process_files 261-294 counts the file
ReadFails(site) ==
    /\ ppc = "read"
    /\ LET step == ParseNext(FileBytes(disk[CurrentPath]), f_pos)
           kind == IF site = "header" THEN "header_error" ELSE "payload_error"
       IN  /\ site = "payload" => step.kind \in {"record", "short_payload"}
           /\ IF SuccessAfter(kind)
              THEN /\ total_files_processed' = total_files_processed + 1
                   /\ outcomes' = Append(outcomes,
                                         [Outcome("processed") EXCEPT !.read_error = site])
                   /\ disk' = IF cleanup
                              THEN [p \in DOMAIN disk \ {CurrentPath} |-> disk[p]]
                              ELSE disk
                   /\ AfterFile(total_packets_processed, total_bytes_processed,
                                total_files_processed + 1, output_bytes_written)
                   /\ UNCHANGED total_files_failed
              ELSE /\ total_files_failed' = total_files_failed + 1
                   /\ outcomes' = Append(outcomes,
                                         [Outcome("failed") EXCEPT !.read_error = site])
                   /\ AfterFile(total_packets_processed, total_bytes_processed,
                                total_files_processed, output_bytes_written)
                   /\ UNCHANGED <<total_files_processed, disk>>
    /\ ppc' = "loop"
    /\ UNCHANGED <<f_pos, packets_in_file, bytes_in_file, total_packets_processed,
                   total_bytes_processed, total_files_skipped, outvars, cfgvars>>
    /\ UNCHANGED <<winvars, prepvars, dlvars, procvars, rpc>>
    /\ UNCHANGED call

\* the final flush (line 297) raises IOError: the with block closes the
\* handle, "except IOError" (301-304) re-raises and process_files ends
\* without summary or final snapshot
FinalFlushFails ==
    /\ ppc = "loop"
    /\ file_idx = Len(file_list)
    /\ buffer_position > 0
    /\ handle_open' = FALSE
    /\ ppc' = "raised"
    /\ UNCHANGED <<write_buffer, buffer_position, ts_dump, ts_dump_exists,
                   output_bytes_written, size_at_open>>
    /\ UNCHANGED <<filevars, statvars, cfgvars>>
    /\ UNCHANGED rvars
    /\ UNCHANGED call

\* SIGINT during process_files (main.py 25-35): sys.exit(0) unwinds the
\* with block, which closes the output handle; what _write_buffer holds is
\* not written
Interrupt ==
    /\ ppc \in {"loop", "read"}
    /\ ppc' = "interrupted"
    /\ handle_open' = FALSE
    /\ UNCHANGED <<write_buffer, buffer_position, ts_dump, ts_dump_exists,
                   output_bytes_written, size_at_open>>
    /\ UNCHANGED <<filevars, statvars, cfgvars>>
    /\ UNCHANGED rvars
    /\ UNCHANGED call

\* the program is started again with --resume, the same window, output
\* path and temp directory (main.py 109-143): the sidecar is loaded, a new
\* S3Reader and later a new ESParser are built
Restart ==
    /\ ppc = "interrupted"
    /\ run < MaxRuns
    /\ resume
    /\ ~HasKey(load_progress_state(state_file), "completed")
    /\ previous_state' = load_progress_state(state_file)
    /\ run' = run + 1
    /\ current_utc' = start_utc_s
    /\ expected_files' = {}
    /\ files_to_download_map' = <<>>
    /\ rpc' = "prepare"
    /\ downloaded_files' = <<>>
    /\ files_found_locally' = 0
    /\ files_failed' = 0
    /\ files_needing_download' = <<>>
    /\ files_actually_downloaded' = 0
    /\ task' = <<>>
    /\ collected' = {}
    /\ returned' = <<>>
    /\ ppc' = "idle"
    /\ file_idx' = 0
    /\ f_pos' = 0
    /\ packets_in_file' = 0
    /\ bytes_in_file' = 0
    /\ outcomes' = <<>>
    /\ write_buffer' = <<>>
    /\ buffer_position' = 0
    /\ handle_open' = FALSE
    /\ output_bytes_written' = 0
    /\ size_at_open' = 0
    /\ total_packets_processed' = 0
    /\ total_bytes_processed' = 0
    /\ total_files_processed' = 0
    /\ total_files_skipped' = 0
    /\ total_files_failed' = 0
    /\ UNCHANGED <<winvars, resume, disk, state_file, ts_dump, ts_dump_exists, cfgvars>>
    /\ UNCHANGED call

\* between two runs the file system's state at the sidecar path changes
StoreChanges ==
    /\ ppc = "interrupted"
    /\ run < MaxRuns
    /\ store_state' \in StoreStates \ {store_state}
    /\ UNCHANGED <<remote, cleanup, buffer_size, ppc, filevars, outvars, statvars>>
    /\ UNCHANGED rvars
    /\ UNCHANGED call

\* between two runs the output artifact is removed
ArtifactRemoved ==
    /\ ppc = "interrupted"
    /\ run < MaxRuns
    /\ ts_dump_exists
    /\ ts_dump_exists' = FALSE
    /\ ts_dump' = <<>>
    /\ UNCHANGED <<write_buffer, buffer_position, handle_open, output_bytes_written,
                   size_at_open, ppc, filevars, statvars, cfgvars>>
    /\ UNCHANGED rvars
    /\ UNCHANGED call

\* the completed flag of a loaded snapshot never taken as set
Mutant_PreviousRunCompleted_Never(state) == FALSE

\* main.py 119-123: the loaded snapshot is truthy and its "completed" entry
\* (False when absent) is true
PreviousRunCompleted(state) == IsTruthy(state) /\ Get(state, "completed", FALSE)

\* the program is started again with --resume after process_files returned
\* (main.py 109-143): the sidecar is loaded; when it says the previous run
\* was completed main returns 0 at line 126, before a temp directory, an
\* S3Reader or an ESParser exists; otherwise the run goes on as any other
RestartAfterReturn ==
    /\ ppc = "returned"
    /\ run < MaxRuns
    /\ resume
    /\ \E loaded \in {load_progress_state(state_file)} :
          /\ previous_state' = loaded
          /\ rpc' = IF PreviousRunCompleted(loaded) THEN "exit0" ELSE "prepare"
    /\ run' = run + 1
    /\ current_utc' = start_utc_s
    /\ expected_files' = {}
    /\ files_to_download_map' = <<>>
    /\ downloaded_files' = <<>>
    /\ files_found_locally' = 0
    /\ files_failed' = 0
    /\ files_needing_download' = <<>>
    /\ files_actually_downloaded' = 0
    /\ task' = <<>>
    /\ collected' = {}
    /\ returned' = <<>>
    /\ ppc' = "idle"
    /\ file_idx' = 0
    /\ f_pos' = 0
    /\ packets_in_file' = 0
    /\ bytes_in_file' = 0
    /\ outcomes' = <<>>
    /\ write_buffer' = <<>>
    /\ buffer_position' = 0
    /\ handle_open' = FALSE
    /\ output_bytes_written' = 0
    /\ size_at_open' = 0
    /\ total_packets_processed' = 0
    /\ total_bytes_processed' = 0
    /\ total_files_processed' = 0
    /\ total_files_skipped' = 0
    /\ total_files_failed' = 0
    /\ UNCHANGED <<winvars, resume, disk, state_file, ts_dump, ts_dump_exists, cfgvars>>
    /\ UNCHANGED call

\* ESParser.__init__ (lines 51-69): nothing parsed, nothing buffered
ParserIdle ==
    /\ ppc = "idle"
    /\ file_idx = 0
    /\ f_pos = 0
    /\ packets_in_file = 0
    /\ bytes_in_file = 0
    /\ outcomes = <<>>
    /\ write_buffer = <<>>
    /\ buffer_position = 0
    /\ ts_dump = <<>>
    /\ ts_dump_exists = FALSE
    /\ handle_open = FALSE
    /\ output_bytes_written = 0
    /\ size_at_open = 0
    /\ total_packets_processed = 0
    /\ total_bytes_processed = 0
    /\ total_files_processed = 0
    /\ total_files_skipped = 0
    /\ total_files_failed = 0

InitManifest ==
    /\ InitWindow(MaxBack)
    /\ disk = <<>>
    /\ state_file = NoState
    /\ resume = FALSE
    /\ previous_state = NoState
    /\ run = 1
    /\ remote = <<>>
    /\ cleanup = FALSE
    /\ buffer_size = 0
    /\ store_state = "ok"
    /\ ParserIdle
    /\ call = NoCall

NextManifest == PrepareStep \/ PrepareDone

SpecManifest == InitManifest /\ [][NextManifest]_vars

\* the constructor keeps running: the loop of _prepare_file_list takes its
\* next step as long as one is possible
SpecManifestFair == SpecManifest /\ WF_vars(NextManifest)

InitReader ==
    /\ InitWindow(MaxBackFetch)
    /\ remote = [p \in CandidatePaths(start_utc_s, end_utc_s) |-> EmptyFile]
    /\ \E present \in SUBSET CandidatePaths(start_utc_s, end_utc_s) :
          disk = [p \in present |-> RemoteObject(p)]
    /\ state_file = NoState
    /\ resume \in BOOLEAN
    /\ previous_state = NoState
    /\ run = 1
    /\ cleanup = FALSE
    /\ buffer_size = 0
    /\ store_state = "ok"
    /\ ParserIdle
    /\ call = NoCall

NextReader ==
    \/ PrepareStep
    \/ PrepareDone
    \/ MainResume
    \/ DownloadStart
    \/ \E i \in DOMAIN task, outcome \in Outcomes : TaskAttempt(i, outcome)
    \/ \E i \in DOMAIN task : Collect(i)
    \/ Finish
    \/ \E removed \in BOOLEAN : Rerun(removed)

SpecReader == InitReader /\ [][NextReader]_vars

\* the list the retrieval engine hands over for n files, all of them found
\* locally: the window [hour, hour + 4n)
ListOf(n) == [j \in 1 .. n |-> get_file_path_to_read(SECONDS_PER_HOUR + INTERVAL_S * (j - 1))]

\* the engine's state after download_files_parallel returned that list
ReaderReturned(list) ==
    /\ start_utc_s = SECONDS_PER_HOUR
    /\ end_utc_s = SECONDS_PER_HOUR + INTERVAL_S * Len(list)
    /\ current_utc = end_utc_s
    /\ expected_files = SeqToSet(list)
    /\ files_to_download_map = list
    /\ rpc = "returned"
    /\ downloaded_files = list
    /\ files_found_locally = Len(list)
    /\ files_failed = 0
    /\ files_needing_download = <<>>
    /\ files_actually_downloaded = 0
    /\ task = <<>>
    /\ collected = {}
    /\ returned = list

\* the local files when the parser starts: each listed file holds its
\* object's bytes, cannot be opened, or is gone
LocalFiles(list, store, unreadable, gone) ==
    [p \in SeqToSet(list) \ gone |->
        IF p \in unreadable THEN [store[p] EXCEPT !.readable = FALSE] ELSE store[p]]

\* the objects the store may hold for the listed paths
Stores(paths) ==
    LET contents == [p \in paths |-> ContentsOf(p)]
    IN  {store \in [paths -> UNION {contents[p] : p \in paths}] :
            \A p \in paths : store[p] \in contents[p]}

\* a run without --resume whose download step found every listed file in
\* the temp directory; before the parse starts a local copy may have been
\* removed or made unreadable (such a copy stands for an empty object)
InitParser ==
    /\ \E n \in 1 .. MaxFiles :
          /\ ReaderReturned(ListOf(n))
          /\ \E store \in Stores(SeqToSet(ListOf(n))) :
                \E unreadable \in SUBSET {p \in DOMAIN store : store[p] = EmptyFile} :
                   \E gone \in SUBSET {p \in DOMAIN store : store[p] = EmptyFile} :
                      /\ unreadable \cap gone = {}
                      /\ remote = store
                      /\ disk = LocalFiles(ListOf(n), store, unreadable, gone)
    /\ resume = FALSE
    /\ cleanup \in BOOLEAN
    /\ buffer_size \in 0 .. MaxBuf
    /\ store_state = "ok"
    /\ previous_state = NoState
    /\ run = 1
    /\ state_file = NoState
    /\ ParserIdle
    /\ call = NoCall

NextParser ==
    \/ ParserStart
    \/ NextFile
    \/ ReadRecord
    \/ FinishFile
    \/ FinishRun

SpecParser == InitParser /\ [][NextParser]_vars

\* a first run started with --resume whose parse is interrupted, and the
\* run started after it; every listed file is well formed and the store
\* answers every request
InitResume ==
    /\ \E n \in 1 .. MaxFiles :
          /\ ReaderReturned(ListOf(n))
          /\ \E store \in Stores(SeqToSet(ListOf(n))) :
                /\ \A p \in DOMAIN store : WellFormed(store[p])
                /\ remote = store
                /\ disk = LocalFiles(ListOf(n), store, {}, {})
    /\ resume = TRUE
    /\ cleanup \in BOOLEAN
    /\ buffer_size \in 0 .. MaxBuf
    /\ store_state = "ok"
    /\ previous_state = NoState
    /\ run = 1
    /\ state_file = save_progress_state(ReaderSnapshot(returned)).content
    /\ ParserIdle
    /\ call = NoCall

NextResume ==
    \/ PrepareStep
    \/ PrepareDone
    \/ MainResume
    \/ DownloadStart
    \/ \E i \in DOMAIN task : TaskAttempt(i, "ok")
    \/ \E i \in DOMAIN task : Collect(i)
    \/ Finish
    \/ ParserStart
    \/ NextFile
    \/ ReadRecord
    \/ FinishFile
    \/ FinishRun
    \/ Interrupt
    \/ Restart

SpecResume == InitResume /\ [][NextResume]_vars

\* what the store answers to a download request (s3_reader.py 149-165):
\* the object, or not-found for a key it does not hold
Answer(path) == IF path \in DOMAIN remote THEN "ok" ELSE "404"

\* the end-to-end scenario: a fresh run over the window [1000,1012) with an
\* empty temp directory, the store holding well-formed objects for
\* 1000-1004 and 1008-1012 and none for 1004-1008
InitEndToEnd ==
    /\ start_utc_s = 1000
    /\ end_utc_s = 1012
    /\ current_utc = start_utc_s
    /\ expected_files = {}
    /\ files_to_download_map = <<>>
    /\ rpc = "prepare"
    /\ ReaderIdle
    /\ disk = <<>>
    /\ remote \in {store \in Stores({get_file_path_to_read(1000),
                                     get_file_path_to_read(1008)}) :
                      \A p \in DOMAIN store : WellFormed(store[p])}
    /\ resume \in BOOLEAN
    /\ cleanup \in BOOLEAN
    /\ buffer_size \in 0 .. MaxBuf
    /\ store_state = "ok"
    /\ previous_state = NoState
    /\ run = 1
    /\ state_file = NoState
    /\ ParserIdle
    /\ call = NoCall

NextEndToEnd ==
    \/ PrepareStep
    \/ PrepareDone
    \/ MainResume
    \/ DownloadStart
    \/ \E i \in DOMAIN task : TaskAttempt(i, Answer(task[i].path))
    \/ \E i \in DOMAIN task : Collect(i)
    \/ Finish
    \/ ParserStart
    \/ NextFile
    \/ ReadRecord
    \/ FinishFile
    \/ FinishRun

SpecEndToEnd == InitEndToEnd /\ [][NextEndToEnd]_vars

\* a byte of an artifact left at the output path by an earlier, unrelated
\* run; no payload byte of the model has this value
StaleByte == 255

\* a first run, with or without --resume, no sidecar present at start, the
\* output path empty or holding an old artifact; every listed file is well
\* formed and was found in the temp directory; before the parse starts a
\* local copy may have been removed or made unreadable (such a copy stands
\* for an empty object)
InitOpen ==
    /\ \E n \in 1 .. MaxFiles :
          /\ ReaderReturned(ListOf(n))
          /\ \E store \in Stores(SeqToSet(ListOf(n))) :
                \E unreadable \in SUBSET {p \in DOMAIN store : store[p] = EmptyFile} :
                   \E gone \in SUBSET {p \in DOMAIN store : store[p] = EmptyFile} :
                      /\ \A p \in DOMAIN store : WellFormed(store[p])
                      /\ unreadable \cap gone = {}
                      /\ remote = store
                      /\ disk = LocalFiles(ListOf(n), store, unreadable, gone)
    /\ resume \in BOOLEAN
    /\ cleanup \in BOOLEAN
    /\ buffer_size \in 0 .. MaxBuf
    /\ store_state = "ok"
    /\ previous_state = NoState
    /\ run = 1
    /\ state_file = IF resume
                    THEN save_progress_state(ReaderSnapshot(returned)).content
                    ELSE NoState
    /\ ppc = "idle"
    /\ file_idx = 0
    /\ f_pos = 0
    /\ packets_in_file = 0
    /\ bytes_in_file = 0
    /\ outcomes = <<>>
    /\ write_buffer = <<>>
    /\ buffer_position = 0
    /\ ts_dump_exists \in BOOLEAN
    /\ ts_dump = IF ts_dump_exists THEN <<StaleByte>> ELSE <<>>
    /\ handle_open = FALSE
    /\ output_bytes_written = 0
    /\ size_at_open = 0
    /\ total_packets_processed = 0
    /\ total_bytes_processed = 0
    /\ total_files_processed = 0
    /\ total_files_skipped = 0
    /\ total_files_failed = 0
    /\ call = NoCall

SpecOpen == InitOpen /\ [][NextParser]_vars

\* the parse of SpecOpen on a device that may refuse a write
NextWriteError ==
    \/ NextParser
    \/ WriteFails
    \/ FinalFlushFails

SpecWriteError == InitOpen /\ [][NextWriteError]_vars

\* the parse of SpecOpen on devices that may refuse a read or a write
NextReadError ==
    \/ NextWriteError
    \/ \E site \in {"header", "payload"} : ReadFails(site)

SpecReadError == InitOpen /\ [][NextReadError]_vars

\* a well-formed file holding one record with a one-byte payload
OneRecordFile(path) ==
    [readable |-> TRUE, recs |-> <<PayloadOf(path, 1, 1)>>, tail |-> NoTail]

\* a first run of the whole program: any window, any part of the manifest
\* already in the temp directory, the output path empty or holding an old
\* artifact, the store answering each request in any of its ways
InitPipeline ==
    /\ InitWindow(MaxBackFetch)
    /\ remote = [p \in CandidatePaths(start_utc_s, end_utc_s) |-> OneRecordFile(p)]
    /\ \E present \in SUBSET CandidatePaths(start_utc_s, end_utc_s) :
          disk = [p \in present |-> remote[p]]
    /\ state_file = NoState
    /\ resume \in BOOLEAN
    /\ previous_state = NoState
    /\ run = 1
    /\ cleanup = FALSE
    /\ buffer_size = 0
    /\ store_state = "ok"
    /\ ppc = "idle"
    /\ file_idx = 0
    /\ f_pos = 0
    /\ packets_in_file = 0
    /\ bytes_in_file = 0
    /\ outcomes = <<>>
    /\ write_buffer = <<>>
    /\ buffer_position = 0
    /\ ts_dump_exists \in BOOLEAN
    /\ ts_dump = IF ts_dump_exists THEN <<StaleByte>> ELSE <<>>
    /\ handle_open = FALSE
    /\ output_bytes_written = 0
    /\ size_at_open = 0
    /\ total_packets_processed = 0
    /\ total_bytes_processed = 0
    /\ total_files_processed = 0
    /\ total_files_skipped = 0
    /\ total_files_failed = 0
    /\ call = NoCall

NextPipeline ==
    \/ PrepareStep
    \/ PrepareDone
    \/ MainResume
    \/ DownloadStart
    \/ \E i \in DOMAIN task, outcome \in Outcomes : TaskAttempt(i, outcome)
    \/ \E i \in DOMAIN task : Collect(i)
    \/ Finish
    \/ MainNoFiles
    \/ NextParser

SpecPipeline == InitPipeline /\ [][NextPipeline]_vars

\* a first run started with --resume, the sidecar absent at start and its
\* path in any state; the download step found every listed file (one
\* record each) in the temp directory and tried to save its snapshot
InitStore ==
    /\ \E n \in 1 .. MaxFiles :
          /\ ReaderReturned(ListOf(n))
          /\ remote = [p \in SeqToSet(ListOf(n)) |-> OneRecordFile(p)]
          /\ disk = remote
    /\ resume = TRUE
    /\ cleanup \in BOOLEAN
    /\ buffer_size \in 0 .. MaxBuf
    /\ store_state \in StoreStates
    /\ previous_state = NoState
    /\ run = 1
    /\ state_file = CASE store_state = "ok" -> json_dump(ReaderSnapshot(returned))
                      [] store_state = "full" -> PartialDocument
                      [] OTHER -> NoState
    /\ ParserIdle
    /\ call = NoCall

NextStore ==
    \/ NextResume
    \/ StoreChanges

SpecStore == InitStore /\ [][NextStore]_vars

\* runs started with --resume, the artifact possibly removed between them
NextRestart ==
    \/ NextStore
    \/ ArtifactRemoved

SpecRestart == InitStore /\ [][NextRestart]_vars

\* runs started with --resume, also after a run that returned normally
NextDriver ==
    \/ NextRestart
    \/ RestartAfterReturn

SpecDriver == InitStore /\ [][NextDriver]_vars

(***************************************************************************)
(* The worker pool under load: more entries than workers                   *)
(***************************************************************************)
\* entries of the manifest, none of them in the temp directory
MaxPoolTasks == 11

\* what the store answers to a task's next request: the first request for
\* an object meets a transient error, the second finds no object
PoolAnswer(t) == IF t.attempt = 0 THEN "error" ELSE "404"

\* a fresh run over the window [hour, hour + 4 * MaxPoolTasks) with an empty
\* temp directory
InitPool ==
    /\ start_utc_s = SECONDS_PER_HOUR
    /\ end_utc_s = SECONDS_PER_HOUR + INTERVAL_S * MaxPoolTasks
    /\ current_utc = start_utc_s
    /\ expected_files = {}
    /\ files_to_download_map = <<>>
    /\ rpc = "prepare"
    /\ ReaderIdle
    /\ disk = <<>>
    /\ remote = <<>>
    /\ state_file = NoState
    /\ resume = FALSE
    /\ previous_state = NoState
    /\ run = 1
    /\ cleanup = FALSE
    /\ buffer_size = 0
    /\ store_state = "ok"
    /\ ParserIdle
    /\ call = NoCall

NextPool ==
    \/ PrepareStep
    \/ PrepareDone
    \/ MainResume
    \/ DownloadStart
    \/ \E i \in DOMAIN task : TaskAttempt(i, PoolAnswer(task[i]))
    \/ \E i \in DOMAIN task : Collect(i)
    \/ Finish
    \/ MainNoFiles

SpecPool == InitPool /\ [][NextPool]_vars

(***************************************************************************)
(* The buffered writer on its own: payloads of any length, then a flush    *)
(***************************************************************************)
MaxCapacity == 3
MaxChunk == 4
MaxChunks == 3

\* the payload of the k-th call, its bytes tagged with the call
ChunkOf(k, len) == [b \in 1 .. len |-> 16 + (k - 1) * MaxChunk + (b - 1)]

\* an ESParser whose output handle process_files has just opened on a new
\* artifact
InitWriter ==
    /\ call = PendingCall("_write_ts_chunk", <<>>)
    /\ buffer_size \in 0 .. MaxCapacity
    /\ start_utc_s = 0
    /\ end_utc_s = 0
    /\ current_utc = 0
    /\ expected_files = {}
    /\ files_to_download_map = <<>>
    /\ rpc = "idle"
    /\ ReaderIdle
    /\ disk = <<>>
    /\ remote = <<>>
    /\ resume = FALSE
    /\ cleanup = FALSE
    /\ store_state = "ok"
    /\ previous_state = NoState
    /\ run = 1
    /\ state_file = NoState
    /\ ppc = "loop"
    /\ file_idx = 0
    /\ f_pos = 0
    /\ packets_in_file = 0
    /\ bytes_in_file = 0
    /\ outcomes = <<>>
    /\ write_buffer = <<>>
    /\ buffer_position = 0
    /\ ts_dump = <<>>
    /\ ts_dump_exists = TRUE
    /\ handle_open = TRUE
    /\ output_bytes_written = 0
    /\ size_at_open = 0
    /\ total_packets_processed = 0
    /\ total_bytes_processed = 0
    /\ total_files_processed = 0
    /\ total_files_skipped = 0
    /\ total_files_failed = 0

\* one call of _write_ts_chunk; call.args is the sequence of payloads passed
WriteChunk ==
    /\ call.op = "_write_ts_chunk"
    /\ ~call.done
    /\ Len(call.args) < MaxChunks
    /\ \E len \in 0 .. MaxChunk :
          LET ts_payload == ChunkOf(Len(call.args) + 1, len)
          IN  /\ SetWriter(WriteTsChunk(Writer, ts_payload))
              /\ call' = [call EXCEPT !.args = Append(@, ts_payload)]
    /\ UNCHANGED <<ts_dump_exists, handle_open, size_at_open, ppc, filevars,
                   statvars, cfgvars>>
    /\ UNCHANGED rvars

\* the call of _flush_buffer that follows the last payload
FlushAtEnd ==
    /\ call.op = "_write_ts_chunk"
    /\ ~call.done
    /\ SetWriter(FlushBuffer(Writer))
    /\ call' = [call EXCEPT !.done = TRUE]
    /\ UNCHANGED <<ts_dump_exists, handle_open, size_at_open, ppc, filevars,
                   statvars, cfgvars>>
    /\ UNCHANGED rvars

NextWriter ==
    \/ WriteChunk
    \/ FlushAtEnd

SpecWriter == InitWriter /\ [][NextWriter]_vars

\* the state of the handle not looked at: the payload handled as if the
\* handle were open
Mutant_ESParser_write_ts_chunk_IgnoresHandle(w, ts_payload) ==
    [raises |-> "none", w |-> WriteTsChunk([w EXCEPT !.open = TRUE], ts_payload)]

\* _write_ts_chunk (lines 101-126): the payload is buffered or written when
\* output_file_handle is set and not closed; otherwise (123-126) the call
\* logs and raises RuntimeError
ESParser_write_ts_chunk(w, ts_payload) ==
    IF w.open
    THEN [raises |-> "none", w |-> WriteTsChunk(w, ts_payload)]
    ELSE [raises |-> "RuntimeError", w |-> w]

\* one call of _write_ts_chunk whatever the state of the handle; a call
\* that raises ends the sequence of calls
WriteChunkAnyHandle ==
    /\ call.op = "_write_ts_chunk"
    /\ ~call.done
    /\ Len(call.args) < MaxChunks
    /\ \E len \in 0 .. MaxChunk :
          LET ts_payload == ChunkOf(Len(call.args) + 1, len)
              after      == ESParser_write_ts_chunk(Writer, ts_payload)
          IN  /\ SetWriter(after.w)
              /\ call' = IF after.raises = "none"
                         THEN [call EXCEPT !.args = Append(@, ts_payload)]
                         ELSE [call EXCEPT !.args = Append(@, ts_payload),
                                           !.done = TRUE,
                                           !.result = <<after.raises>>]
    /\ UNCHANGED <<ts_dump_exists, handle_open, size_at_open, ppc, filevars,
                   statvars, cfgvars>>
    /\ UNCHANGED rvars

\* the output handle is closed (the with block of process_files is left)
\* while the ESParser object lives on; what _write_buffer holds stays there
HandleCloses ==
    /\ call.op = "_write_ts_chunk"
    /\ ~call.done
    /\ handle_open
    /\ handle_open' = FALSE
    /\ UNCHANGED <<write_buffer, buffer_position, ts_dump, ts_dump_exists,
                   output_bytes_written, size_at_open>>
    /\ UNCHANGED <<ppc, filevars, statvars, cfgvars>>
    /\ UNCHANGED rvars
    /\ UNCHANGED call

NextClosedHandle ==
    \/ WriteChunkAnyHandle
    \/ HandleCloses
    \/ FlushAtEnd

\* the buffered writer called with its handle open, then closed
SpecClosedHandle == InitWriter /\ [][NextClosedHandle]_vars

(***************************************************************************)
(* The functions of utils.py called on their own, over bounded inputs      *)
(***************************************************************************)
\* instants around the start of the epoch, an hour boundary and a day boundary
MaxOffset == 9

Instants ==
    (0 .. MaxOffset)
       \cup ((SECONDS_PER_HOUR - MaxOffset) .. (SECONDS_PER_HOUR + MaxOffset))
       \cup ((24 * SECONDS_PER_HOUR - MaxOffset) .. (24 * SECONDS_PER_HOUR + MaxOffset))

\* file names: something before the first run of digits, the run, a
\* separator, a second run, an ending
NameHeads == {<<>>, <<"x">>, <<"-">>}
FirstRuns == {<<>>, <<"0">>, <<"5">>, <<"1", "2">>, <<"0", "0", "7">>}
NameSeparators == {<<"-">>, <<>>, <<"_">>, <<"-", "-">>}
SecondRuns == {<<>>, <<"3">>, <<"5">>, <<"9">>, <<"1", "6">>}
NameEndings ==
    {<<".", "e", "s">>, <<".", "t", "s">>, <<"e", "s">>, <<".", "e", "s", "\n">>,
     <<".", "e", "s", "x">>, <<>>}

\* directories a name is put under: none, relative, nested, absolute, and
\* one that is spelled like a file name
Directories ==
    {<<>>, <<"d">>, <<"a", "/", "b">>, <<"/", "t">>, <<"1", "-", "5", ".", "e", "s">>}

NameFrom(parts) == parts[1] \o parts[2] \o parts[3] \o parts[4] \o parts[5]

\* dir + "/" + name
Under(dir, name) == dir \o <<"/">> \o name

\* prefixes and relative paths with 0 .. MaxSeparators separators at the joint
MaxSeparators == 2

RECURSIVE Separators(_)
Separators(n) == IF n = 0 THEN <<>> ELSE <<"/">> \o Separators(n - 1)

PrefixBody == <<"s", "3", ":", "/", "/", "b", "/", "p">>
RelativeBody == <<"d", "/", "1", "-", "5", ".", "e", "s">>

\* local paths a list handed to the sort can hold
SortablePaths ==
    {<<"t", "/", "5", "-", "9", ".", "e", "s">>,
     <<"t", "/", "1", "2", "-", "1", "6", ".", "e", "s">>,
     <<"t", "/", "x", ".", "e", "s">>,
     <<"t", "/", "9", "-", "5", ".", "t", "s">>,
     <<"t", "/", "0", "-", "4", ".", "e", "s">>}

MaxListed == 3

InitCalls ==
    /\ \/ \E t \in Instants : call = PendingCall("get_file_path_to_read", <<t>>)
       \/ \E dir \in Directories,
             parts \in NameHeads \X FirstRuns \X NameSeparators \X SecondRuns \X NameEndings :
             \/ call = PendingCall("get_file_duration", <<dir, parts>>)
             \/ call = PendingCall("get_start_utc_from_filename", <<dir, parts>>)
       \/ \E i \in 0 .. MaxSeparators, j \in 0 .. MaxSeparators,
             body \in {<<>>, RelativeBody} :
             call = PendingCall("get_s3_path",
                                <<PrefixBody \o Separators(i), Separators(j) \o body>>)
       \/ \E n \in 1 .. MaxListed : \E list \in [1 .. n -> SortablePaths] :
             call = PendingCall("sort", <<list>>)
    /\ start_utc_s = 0
    /\ end_utc_s = 0
    /\ current_utc = 0
    /\ expected_files = {}
    /\ files_to_download_map = <<>>
    /\ rpc = "idle"
    /\ ReaderIdle
    /\ disk = <<>>
    /\ remote = <<>>
    /\ resume = FALSE
    /\ cleanup = FALSE
    /\ buffer_size = 0
    /\ store_state = "ok"
    /\ previous_state = NoState
    /\ run = 1
    /\ state_file = NoState
    /\ ParserIdle

Done(result) == call' = [call EXCEPT !.done = TRUE, !.result = result]

\* s3_reader.py 105-115: the path of an instant, and the duration and start
\* epoch read back from it
NameInstant ==
    /\ call.op = "get_file_path_to_read"
    /\ ~call.done
    /\ LET rel_path == get_file_path_to_read(call.args[1])
       IN  Done([path     |-> rel_path,
                 duration |-> get_file_duration(rel_path),
                 start    |-> get_start_utc_from_filename(rel_path)])
    /\ UNCHANGED <<rvars, pvars>>

\* get_file_duration of a name, bare and under a directory
DurationOfName ==
    /\ call.op = "get_file_duration"
    /\ ~call.done
    /\ LET name == NameFrom(call.args[2])
       IN  Done([bare     |-> get_file_duration(name),
                 prefixed |-> get_file_duration(Under(call.args[1], name))])
    /\ UNCHANGED <<rvars, pvars>>

\* get_start_utc_from_filename of a name, bare and under a directory
StartOfName ==
    /\ call.op = "get_start_utc_from_filename"
    /\ ~call.done
    /\ LET name == NameFrom(call.args[2])
       IN  Done([bare     |-> get_start_utc_from_filename(name),
                 prefixed |-> get_start_utc_from_filename(Under(call.args[1], name))])
    /\ UNCHANGED <<rvars, pvars>>

\* get_s3_path of a prefix and a relative path
JoinS3Path ==
    /\ call.op = "get_s3_path"
    /\ ~call.done
    /\ Done(get_s3_path(call.args[1], call.args[2]))
    /\ UNCHANGED <<rvars, pvars>>

\* s3_reader.py 264-270: the sort of the available list
SortAvailable ==
    /\ call.op = "sort"
    /\ ~call.done
    /\ Done(SortedForReturn(call.args[1]))
    /\ UNCHANGED <<rvars, pvars>>

NextCalls ==
    \/ NameInstant
    \/ DurationOfName
    \/ StartOfName
    \/ JoinS3Path
    \/ SortAvailable

SpecCalls == InitCalls /\ [][NextCalls]_vars

(***************************************************************************)
(* Properties of the manifest builder and the retrieval engine             *)
(***************************************************************************)
ManifestSet == SeqToSet(files_to_download_map)

\* files_failed as seeded before download_files_parallel starts counting
SeedFailed ==
    IF IsTruthy(previous_state) /\ HasKey(previous_state, "downloaded_files")
    THEN previous_state.files_failed
    ELSE 0

Permanent == {"FileNotFoundError", "PermissionError"}

\* C1: for every window [s,e) with s < e the manifest is non-empty,
\* strictly advancing by start epoch, free of duplicates, its first entry
\* starts at or before s, and the largest end epoch of its entries is >= e.
C1_ManifestCoversWindow ==
    rpc # "prepare" =>
        LET m == files_to_download_map
        IN  /\ Len(m) >= 1
            /\ \A j \in 1 .. (Len(m) - 1) :
                  get_start_utc_from_filename(m[j]) < get_start_utc_from_filename(m[j + 1])
            /\ \A j, k \in DOMAIN m : j # k => m[j] # m[k]
            /\ get_start_utc_from_filename(m[1]) <= start_utc_s
            /\ \E j \in DOMAIN m : EndEpochOf(m[j]) >= end_utc_s

\* C2: the list download_files_parallel returns (the list main hands to the
\* parser) is sorted ascending by the start epoch of each file name,
\* whatever the completion order of the fetches and whichever files were
\* found locally.
C2_ReturnedSorted ==
    rpc = "returned" => IsSortedByStart(returned)

\* a returned list in which a downloaded file precedes, by epoch, a file
\* that was found locally (and so was appended before it)
C2_Witness ==
    /\ rpc = "returned"
    /\ Len(returned) >= 2
    /\ \E i \in DOMAIN task :
          /\ task[i].result = "True"
          /\ \E p \in ManifestSet \ SeqToSet(files_needing_download) :
                get_start_utc_from_filename(task[i].path) < get_start_utc_from_filename(p)

\* manifest entries that were on local disk when download_files_parallel
\* started: on disk now, and not put there by one of its tasks
LocalAtStart ==
    {p \in ManifestSet :
        /\ p \in DOMAIN disk
        /\ ~ \E i \in DOMAIN task : task[i].path = p /\ task[i].result = "True"}

\* C8: with N manifest entries of which k exist locally, exactly N - k fetch
\* tasks are dispatched, none for a locally existing file, and the returned
\* list has at most N entries, fewer than N only when some fetch failed.
C8_DispatchAndSize ==
    rpc = "returned" =>
        LET N == Len(files_to_download_map)
            k == Cardinality(LocalAtStart)
        IN  /\ Len(task) = N - k
            /\ \A i \in DOMAIN task : task[i].path \notin LocalAtStart
            /\ Len(returned) <= N
            /\ Len(returned) < N => \E i \in DOMAIN task : task[i].result # "True"

\* C9: a 404 or 403 answer ends the fetch with that attempt (no attempt
\* follows it), the fetch is recorded as exactly one failure, its file is
\* not in the returned list, and every other dispatched fetch still runs to
\* its own outcome, the successful ones being in the returned list.
C9_PermanentNoRetry ==
    /\ \A i \in DOMAIN task :
          LET t == task[i]
          IN  /\ t.attempt = Len(t.log)
              /\ \A j \in DOMAIN t.log :
                    t.log[j] \in {"404", "403"} =>
                        /\ j = Len(t.log)
                        /\ t.st = "done"
                        /\ t.result = IF t.log[j] = "404" THEN "FileNotFoundError"
                                      ELSE "PermissionError"
              /\ (t.result \in Permanent /\ rpc = "returned") =>
                    ~Contains(returned, t.path)
    /\ rpc \in {"collect", "returned"} =>
          files_failed = SeedFailed
                         + Cardinality({i \in collected : task[i].result # "True"})
    /\ rpc = "returned" =>
          \A i \in DOMAIN task :
              /\ task[i].st = "done"
              /\ i \in collected
              /\ task[i].result = "True" => Contains(returned, task[i].path)

\* the first attempt of a fetch answered 404 or 403, another fetch
\* dispatched with it downloaded its file, and the engine has returned
C9_Witness ==
    /\ rpc = "returned"
    /\ \E i, j \in DOMAIN task :
          /\ task[i].log \in {<<"404">>, <<"403">>}
          /\ task[j].result = "True"
          /\ files_failed >= 1

\* C10: a fetch failing only with transient errors makes at most 3
\* attempts; it succeeds after exactly j attempts when attempt j is the
\* first to succeed; after 3 failed attempts it ends as a failure counted
\* once, the engine still returning; the delay is taken after every failed
\* attempt but the last, and never after a success.
C10_TransientRetries ==
    /\ \A i \in DOMAIN task :
          LET t == task[i]
              n == Len(t.log)
          IN  /\ t.attempt <= S3_DOWNLOAD_RETRIES
              /\ \A j \in 1 .. (n - 1) : t.log[j] = "error"
              /\ t.st = "queued" <=> n = 0
              /\ t.st = "sleeping" <=>
                    (n > 0 /\ n < S3_DOWNLOAD_RETRIES /\ t.log[n] = "error")
              /\ t.st = "sleeping" => t.sleeps = n
              /\ t.st = "done" => t.sleeps = n - 1
              /\ t.result = "True" <=> (n > 0 /\ t.log[n] = "ok")
              /\ t.result = "False" <=>
                    (n = S3_DOWNLOAD_RETRIES /\ t.log[n] = "error")
    /\ rpc = "returned" =>
          files_actually_downloaded + (files_failed - SeedFailed) = Len(task)

\* one fetch failed 3 times and is counted as a failure, another succeeded
\* on its second attempt, and the engine has returned a list
C10_Witness ==
    /\ rpc = "returned"
    /\ returned # <<>>
    /\ \E i, j \in DOMAIN task :
          /\ task[i].log = <<"error", "error", "error">>
          /\ task[i].result = "False"
          /\ task[j].log = <<"error", "ok">>
          /\ task[j].result = "True"

(***************************************************************************)
(* Properties of the stream demuxer                                        *)
(***************************************************************************)
\* what this run has appended to the output artifact; until process_files
\* returns, with the bytes its buffer still holds
AppendedStream ==
    SubSeq(ts_dump, size_at_open + 1, Len(ts_dump))
      \o (IF ppc = "returned" THEN <<>> ELSE SubSeq(write_buffer, 1, buffer_position))

\* the payload bytes of one file in a byte stream, in stream order
BytesOf(path, stream) ==
    SelectSeq(stream, LAMBDA b : b \in PayloadBytesOfFile(path))

\* entry j of the list was opened and read by _process_single_es_file
Parsed(j) ==
    /\ j \in DOMAIN outcomes
    /\ outcomes[j].result # "skipped"
    /\ ~(file_list[j] \in DOMAIN disk /\ ~disk[file_list[j]].readable)

\* the content of entry j as it was read
SourceOf(j) == remote[file_list[j]]

RECURSIVE SumRecordSizes(_)
\* sum over the records of header size + payload length
SumRecordSizes(recs) ==
    IF recs = <<>> THEN 0
    ELSE ES_HEADER_SIZE_BYTES + Len(Head(recs)) + SumRecordSizes(Tail(recs))

\* the totals as they stood when entry j was reached
PacketsBefore(j) ==
    IF j > 1 THEN outcomes[j - 1].packets
    ELSE IF HasKey(previous_state, "total_packets_processed")
         THEN previous_state.total_packets_processed ELSE 0

BytesBefore(j) ==
    IF j > 1 THEN outcomes[j - 1].bytes
    ELSE IF HasKey(previous_state, "total_bytes_processed")
         THEN previous_state.total_bytes_processed ELSE 0

\* s occurs in stream as one contiguous block
OccursIn(s, stream) ==
    \E k \in 0 .. (Len(stream) - Len(s)) : SubSeq(stream, k + 1, k + Len(s)) = s

\* C3: a well-formed file with records (h1,p1),(h2,p2),... (possibly none)
\* that process_files has parsed contributed exactly concat(p1,p2,...) to
\* the output artifact, as one block; it raised total_packets_processed by
\* the record count and total_bytes_processed by the sum of 27 + len(p_i);
\* and it was counted as processed.
C3_WellFormedFileParsed ==
    \A j \in DOMAIN outcomes :
        (Parsed(j) /\ WellFormed(SourceOf(j))) =>
            LET recs == SourceOf(j).recs
            IN  /\ outcomes[j].result = "processed"
                /\ BytesOf(file_list[j], AppendedStream) = Concat(recs)
                /\ OccursIn(Concat(recs), AppendedStream)
                /\ outcomes[j].packets - PacketsBefore(j) = Len(recs)
                /\ outcomes[j].bytes - BytesBefore(j) = SumRecordSizes(recs)

\* C3 witness: process_files has returned after parsing a well-formed file
\* of MaxRecs records with payload bytes, through the buffer
C3_Witness ==
    /\ ppc = "returned"
    /\ buffer_size = MaxBuf
    /\ \E j \in DOMAIN outcomes :
          /\ Parsed(j)
          /\ WellFormed(SourceOf(j))
          /\ Len(SourceOf(j).recs) = MaxRecs
          /\ \A r \in 1 .. MaxRecs : SourceOf(j).recs[r] # <<>>
          /\ outcomes[j].result = "processed"

\* C4: when the payload of record i of a file is truncated, the bytes the
\* file contributes to the output artifact are exactly concat(p1..p_{i-1}),
\* no byte of the partial p_i is ever written or buffered, and the packet
\* and byte counters include only records 1..i-1.
C4_TruncatedPayloadNotWritten ==
    /\ \A j \in DOMAIN outcomes :
          (Parsed(j) /\ SourceOf(j).tail.kind = "payload") =>
              LET recs == SourceOf(j).recs
              IN  /\ BytesOf(file_list[j], AppendedStream) = Concat(recs)
                  /\ outcomes[j].packets - PacketsBefore(j) = Len(recs)
                  /\ outcomes[j].bytes - BytesBefore(j) = SumRecordSizes(recs)
    /\ \A p \in DOMAIN remote :
          remote[p].tail.kind = "payload" =>
              SeqToSet(remote[p].tail.present)
                 \cap SeqToSet(ts_dump \o SubSeq(write_buffer, 1, buffer_position)) = {}

\* C4 witness: process_files has returned after parsing a file with a
\* complete record followed by a record whose payload is cut short but not
\* empty
C4_Witness ==
    /\ ppc = "returned"
    /\ \E j \in DOMAIN outcomes :
          /\ Parsed(j)
          /\ SourceOf(j).tail.kind = "payload"
          /\ SourceOf(j).tail.present # <<>>
          /\ SourceOf(j).recs # <<>>
          /\ Concat(SourceOf(j).recs) # <<>>

\* C5: a file whose parsing stopped on a truncated header or a truncated
\* payload is marked failed: total_files_failed counts it and
\* total_files_processed does not.
C5_TruncatedMarkedFailed ==
    \A j \in DOMAIN outcomes :
        (Parsed(j) /\ Truncated(SourceOf(j))) => outcomes[j].result = "failed"

\* C6: after process_files returns, a source file whose parsing stopped on
\* a truncated header or payload is still on disk, whatever
\* cleanup_after_processing is.
C6_TruncatedKeptOnDisk ==
    ppc = "returned" =>
        \A j \in DOMAIN outcomes :
            (outcomes[j].result # "skipped" /\ Truncated(SourceOf(j)))
                => file_list[j] \in DOMAIN disk

\* C7: exactly-once under resume: when a run resumed after an interrupted
\* one has completed, the payloads of every available input file appear
\* exactly once in the output artifact.
C7_ExactlyOnceUnderResume ==
    (ppc = "returned" /\ run > 1) =>
        \A p \in DOMAIN remote :
            BytesOf(p, ts_dump) = Concat(remote[p].recs)

(***************************************************************************)
(* Properties of a whole run                                               *)
(***************************************************************************)
\* C11: for the window [1000,1012) the manifest names the files of epochs
\* 1000, 1004 and 1008; with 1004-1008 missing from the store a fresh run
\* reports 2 downloaded and 1 failed, and when the parse has returned the
\* output artifact holds exactly the payloads of the 1000 file followed by
\* those of the 1008 file.
C11_EndToEnd ==
    /\ rpc # "prepare" =>
          files_to_download_map = <<get_file_path_to_read(1000),
                                    get_file_path_to_read(1004),
                                    get_file_path_to_read(1008)>>
    /\ rpc = "returned" =>
          /\ files_actually_downloaded = 2
          /\ files_failed = 1
          /\ returned = <<get_file_path_to_read(1000), get_file_path_to_read(1008)>>
    /\ ppc = "returned" =>
          ts_dump = Concat(remote[get_file_path_to_read(1000)].recs)
                      \o Concat(remote[get_file_path_to_read(1008)].recs)

\* C11 witness: the run has ended and both files carried payload bytes
C11_Witness ==
    /\ ppc = "returned"
    /\ Concat(remote[get_file_path_to_read(1000)].recs) # <<>>
    /\ Concat(remote[get_file_path_to_read(1008)].recs) # <<>>
    /\ files_failed = 1

\* the payloads entry j of the list hands to _write_ts_chunk: those of its
\* complete records if it was parsed, none otherwise
Contribution(j) == IF Parsed(j) THEN Concat(SourceOf(j).recs) ELSE <<>>

RECURSIVE ExpectedStream(_)
\* the contributions of entries 1..k in list order
ExpectedStream(k) ==
    IF k = 0 THEN <<>> ELSE ExpectedStream(k - 1) \o Contribution(k)

\* the list position of the file a payload byte of the stream belongs to
PositionOf(b) == CHOOSE j \in DOMAIN file_list : b \in PayloadBytesOfFile(file_list[j])

\* the bytes of the stream are ordered by list position of their file
OrderedByFile(stream) ==
    LET position == [a \in DOMAIN stream |-> PositionOf(stream[a])]
    IN  \A a, b \in DOMAIN stream : a < b => position[a] <= position[b]

\* C12: process_files opens the output artifact once per run (only the step
\* that starts the loop opens the handle, which stays open until the loop is
\* left) and every payload goes through that handle, so when the run ends
\* the appended bytes are ordered by the file's position in the list and,
\* within a file, by record position: no payload of a later file precedes
\* one of an earlier file.
C12_OneWriterInListOrder ==
    /\ [][ /\ (handle_open' /\ ~handle_open) => (ppc = "idle" /\ ppc' = "loop")
           /\ (ppc' \in {"loop", "read"}) => handle_open' ]_vars
    /\ [](ppc = "returned" =>
              /\ SubSeq(ts_dump, size_at_open + 1, Len(ts_dump))
                    = ExpectedStream(Len(file_list))
              /\ OrderedByFile(SubSeq(ts_dump, size_at_open + 1, Len(ts_dump))))

\* C12 witness: the run has ended after two files with payload bytes went
\* through the buffer
C12_Witness ==
    /\ ppc = "returned"
    /\ buffer_size = MaxBuf
    /\ Len(outcomes) = MaxFiles
    /\ \A j \in DOMAIN outcomes : Parsed(j) /\ Contribution(j) # <<>>

\* C13: the output artifact is opened in append mode (what it held is kept)
\* only when it already exists and the run is resuming with a snapshot that
\* existed before the run; in every other case, a run with the resume flag
\* but without such a snapshot included, it is truncated.
C13_AppendOnlyWithSnapshot ==
    ppc # "idle" =>
        /\ size_at_open > 0 => (resume /\ IsTruthy(previous_state))
        /\ ~(resume /\ IsTruthy(previous_state)) => StaleByte \notin SeqToSet(ts_dump)

\* total length of the payloads _write_ts_chunk has accepted in this run:
\* those of the entries already left behind and those of the records read
\* so far from the file being parsed
AcceptedSoFar ==
    Len(ExpectedStream(Len(outcomes)))
      + (IF ppc = "read"
         THEN Len(Concat(SubSeq(disk[CurrentPath].recs, 1, packets_in_file)))
         ELSE 0)

\* C14: byte accounting.  Inside process_files, output_bytes_written +
\* _buffer_position equals the artifact's size when it was opened (0 when
\* truncated) plus the total length of the payloads accepted so far; after
\* the final flush output_bytes_written alone equals that sum and equals
\* the artifact's size.
C14_ByteAccounting ==
    /\ ppc \in {"loop", "read"} =>
          /\ output_bytes_written + buffer_position = size_at_open + AcceptedSoFar
          /\ output_bytes_written = Len(ts_dump)
    /\ ppc = "returned" =>
          /\ buffer_position = 0
          /\ output_bytes_written = size_at_open + AcceptedSoFar
          /\ output_bytes_written = Len(ts_dump)

\* C14 witness: a resumed run appending to a non-empty artifact holds
\* accepted bytes in its buffer
C14_Witness ==
    /\ run = 2
    /\ ppc = "read"
    /\ size_at_open > 0
    /\ buffer_position > 0
    /\ AcceptedSoFar > 0

\* C15: the final snapshot carries completed = true only on a clean end of
\* the whole list: not if a file of the list was marked failed or skipped.
C15_CompletedOnlyIfClean ==
    (ppc = "returned" /\ HasKey(load_progress_state(state_file), "completed")
                      /\ load_progress_state(state_file).completed) =>
        (total_files_failed = 0 /\ total_files_skipped = 0)

\* the persisted snapshot accounts only for durable data: the payloads of
\* the files its counters cover are in the artifact, and the output size it
\* records is the artifact's size
SnapshotDurable ==
    HasKey(load_progress_state(state_file), "total_packets_processed") =>
        LET snapshot == load_progress_state(state_file)
            covered  == ExpectedStream(Len(snapshot.processed_files))
            appended == SubSeq(ts_dump, size_at_open + 1, Len(ts_dump))
        IN  /\ Len(covered) <= Len(appended)
            /\ SubSeq(appended, 1, Len(covered)) = covered
            /\ snapshot.output_bytes_written = Len(ts_dump)

\* C16: when SIGINT has ended process_files, either no accepted payload byte
\* was left in the write buffer (all of them were flushed to the artifact),
\* or the persisted snapshot accounts only for durable data.
C16_InterruptLosesNothing ==
    ppc = "interrupted" => (buffer_position = 0 \/ SnapshotDurable)

\* C17: if a write of a record's payload to the output artifact fails with
\* an I/O error, process_files raises and no further input file is parsed
\* after the failed write.
C17_WriteErrorEndsRun ==
    \A j \in DOMAIN outcomes :
        outcomes[j].write_error =>
            /\ ppc = "raised"
            /\ j = Len(outcomes)
            /\ file_idx = j

\* C18: if no manifest file is found locally and no fetch succeeds,
\* download_files_parallel returns an empty list; on an empty list the only
\* step of the driver is to return a non-zero status, nothing follows it,
\* and the parser is never run: the output artifact is neither created nor
\* truncated.
C18_NothingToParse ==
    [][ /\ (rpc' = "returned" /\ files_found_locally' = 0
              /\ files_actually_downloaded' = 0) => returned' = <<>>
        /\ (rpc = "returned" /\ returned = <<>>) =>
              /\ rpc' = "exit1"
              /\ ppc' = "idle"
              /\ UNCHANGED <<ts_dump, ts_dump_exists, handle_open>>
        /\ rpc # "exit1" ]_vars

\* C18 witness: the driver has returned non-zero after every fetch of a
\* manifest of several files failed, an old artifact being left as it was
C18_Witness ==
    /\ rpc = "exit1"
    /\ Len(files_to_download_map) > 1
    /\ files_failed = Len(files_to_download_map)
    /\ ts_dump = <<StaleByte>>
    /\ ppc = "idle"

(***************************************************************************)
(* Properties of the progress store                                        *)
(***************************************************************************)
\* C19: progress-store operations never propagate an error.  A run that
\* loads a sidecar that is missing, malformed or unreadable starts with an
\* empty snapshot.  A save that cannot write returns false, leaving the file
\* as it was or cut short; the step of download_files_parallel or
\* process_files that made it ends as it would have otherwise (the sorted
\* list returned, the loop on to the next file, the counters untouched by
\* the save), and a first run whose saves fail still parses its whole list.
C19_StoreFaultsDegrade ==
    [][ /\ (run' = run + 1 /\ (store_state = "unreadable" \/ state_file = NoState
                                 \/ state_file = PartialDocument))
              => (previous_state' = NoState /\ rpc' = "prepare")
        /\ store_state # "ok" =>
              /\ ~save_progress_state(ReaderSnapshot(downloaded_files)).returns
              /\ state_file' \in {state_file, PartialDocument}
              /\ (rpc = "collect" /\ rpc' = "returned") =>
                    /\ returned' = SortByStart(downloaded_files)
                    /\ UNCHANGED <<files_found_locally, files_failed,
                                   files_actually_downloaded>>
              /\ file_idx' = file_idx + 1 =>
                    /\ ppc' = "loop"
                    /\ Len(outcomes') = file_idx'
                    /\ UNCHANGED <<total_packets_processed, total_bytes_processed,
                                   output_bytes_written, file_list>>
                    /\ total_files_processed' + total_files_failed'
                          + total_files_skipped'
                       = total_files_processed + total_files_failed
                          + total_files_skipped + 1
              /\ (ppc = "loop" /\ ppc' = "returned") =>
                    /\ UNCHANGED statvars
                    /\ run = 1 =>
                          /\ total_files_processed = Len(file_list)
                          /\ total_packets_processed = Len(file_list)
                          /\ ts_dump' = ExpectedStream(Len(file_list)) ]_vars

\* C19 witness: a run whose saves all failed on a full device has parsed the
\* whole list
C19_Witness ==
    /\ ppc = "returned"
    /\ run = 1
    /\ store_state = "full"
    /\ state_file = PartialDocument
    /\ total_files_processed = MaxFiles

\* C20: round trip of the progress store.  Whenever a save returns true,
\* loading the sidecar gives a snapshot equal to the one saved (the engine's
\* snapshot, a periodic checkpoint or the final snapshot), with nothing of
\* an earlier save left in it.
C20_SaveLoadRoundTrip ==
    [][ store_state = "ok" =>
          /\ (rpc = "collect" /\ rpc' = "returned" /\ resume /\ returned' # <<>>) =>
                load_progress_state(state_file') =
                   [downloaded_files |-> returned',
                    files_found_locally |-> files_found_locally',
                    files_failed |-> files_failed']
          /\ (file_idx' = file_idx + 1 /\ resume /\ file_idx % CHECKPOINT_EVERY = 0) =>
                load_progress_state(state_file') =
                   [total_packets_processed |-> total_packets_processed',
                    total_bytes_processed |-> total_bytes_processed',
                    total_files_processed |-> total_files_processed',
                    output_bytes_written |-> output_bytes_written',
                    processed_files |-> SubSeq(file_list, 1, file_idx')]
          /\ (ppc # "returned" /\ ppc' = "returned" /\ resume) =>
                load_progress_state(state_file') =
                   [total_packets_processed |-> total_packets_processed',
                    total_bytes_processed |-> total_bytes_processed',
                    total_files_processed |-> total_files_processed',
                    output_bytes_written |-> output_bytes_written',
                    completed |-> TRUE] ]_vars

\* C20 witness: the final snapshot of a resumed run has replaced the
\* engine's snapshot and the checkpoints saved before it
C20_Witness ==
    /\ ppc = "returned"
    /\ run = 2
    /\ store_state = "ok"
    /\ HasKey(load_progress_state(state_file), "completed")
    /\ HasKey(previous_state, "processed_files")

(***************************************************************************)
(* Properties of the naming functions                                      *)
(***************************************************************************)
\* C23: for every non-negative instant t, get_file_path_to_read(t) names the
\* interval [start, start + 4) with start = t - ((t mod 3600) mod 4): start
\* <= t < start + 4, start is a multiple of 4, the name read back gives
\* start and start + 4, and every instant of the interval has the same path.
C23_IntervalOfInstant ==
    (call.op = "get_file_path_to_read" /\ call.done) =>
       LET t     == call.args[1]
           start == t - ((t % 3600) % 4)
       IN  /\ start <= t
           /\ t < start + 4
           /\ start % 4 = 0
           /\ call.result.start = start
           /\ basename(call.result.path)
                 = str(start) \o <<"-">> \o str(start + 4) \o <<".", "e", "s">>
           /\ \A u \in start .. (start + 3) :
                 get_file_path_to_read(u) = call.result.path

\* C23 witness: the path of an instant that is not the start of its interval
C23_Witness ==
    /\ call.op = "get_file_path_to_read"
    /\ call.done
    /\ call.args[1] = SECONDS_PER_HOUR + 3
    /\ call.result.start = SECONDS_PER_HOUR

\* C24: round trip of the naming codec: for every instant t,
\* get_file_duration(get_file_path_to_read(t)) is the default interval
\* length 4.
C24_DurationOfCanonicalName ==
    (call.op = "get_file_path_to_read" /\ call.done) =>
       call.result.duration = DEFAULT_DURATION_S

\* C24 witness: the round trip for the last instant of a day
C24_Witness ==
    /\ call.op = "get_file_path_to_read"
    /\ call.done
    /\ call.args[1] = 24 * SECONDS_PER_HOUR - 1
    /\ call.result.duration = 4

\* a name put together from its parts matches (\d+)-(\d+)\.es$ : nothing
\* before the first run of digits, both runs non-empty, one hyphen between
\* them, and ".es" at the end or before a final newline
MatchesPattern(parts) ==
    /\ parts[1] = <<>>
    /\ parts[2] # <<>>
    /\ parts[3] = <<"-">>
    /\ parts[4] # <<>>
    /\ parts[5] \in {<<".", "e", "s">>, <<".", "e", "s", "\n">>}

\* C25: get_file_duration returns end - start for a name start-end.es when
\* that difference is positive, and the default 4 when it is zero or
\* negative or the name does not match the pattern; the result is always
\* >= 1, and the same for the bare name and the name under a directory.
C25_DurationOfName ==
    (call.op = "get_file_duration" /\ call.done) =>
       LET parts    == call.args[2]
           diff     == int(parts[4]) - int(parts[2])
           expected == IF MatchesPattern(parts) /\ diff > 0 THEN diff ELSE 4
       IN  /\ call.result.bare = expected
           /\ call.result.prefixed = expected
           /\ call.result.bare >= 1

\* C25 witness: a duration other than the default read from a name under a
\* nested directory
C25_Witness ==
    /\ call.op = "get_file_duration"
    /\ call.done
    /\ call.args[1] = <<"a", "/", "b">>
    /\ NameFrom(call.args[2]) = <<"5", "-", "1", "6", ".", "e", "s">>
    /\ call.result.prefixed = 11

\* C26: get_start_utc_from_filename(dir + "/" + name) equals
\* get_start_utc_from_filename(name) for every directory and file name.
C26_StartStableUnderPrefix ==
    (call.op = "get_start_utc_from_filename" /\ call.done) =>
       call.result.prefixed = call.result.bare

\* C26 witness: a name under a directory that is itself spelled like a file
\* name
C26_Witness ==
    /\ call.op = "get_start_utc_from_filename"
    /\ call.done
    /\ call.args[1] = <<"1", "-", "5", ".", "e", "s">>
    /\ call.result.bare = 12
    /\ call.result.prefixed = 12

\* the name of a path does not match the pattern / gives a positive start
Unparseable(path) == ~re_match(basename(path)).matched
PositiveStart(path) ==
    re_match(basename(path)).matched /\ int(re_match(basename(path)).group1) > 0

\* C27: get_start_utc_from_filename returns 0 for every name that does not
\* match start-end.es; the sort of the available list ends, keeps the
\* entries, and puts every file with an unparseable name before every file
\* with a valid positive start epoch.
C27_UnparseableSortsFirst ==
    /\ (call.op = "get_start_utc_from_filename" /\ call.done
          /\ ~MatchesPattern(call.args[2])) => call.result.bare = 0
    /\ (call.op = "sort" /\ call.done) =>
          LET list   == call.args[1]
              sorted == call.result
          IN  /\ Len(sorted) = Len(list)
              /\ \A p \in SortablePaths :
                    Cardinality({i \in DOMAIN sorted : sorted[i] = p})
                       = Cardinality({i \in DOMAIN list : list[i] = p})
              /\ \A i, j \in DOMAIN sorted :
                    (Unparseable(sorted[i]) /\ PositiveStart(sorted[j])) => i < j

\* C27 witness: the sort moved an unparseable name in front of two valid ones
C27_Witness ==
    /\ call.op = "sort"
    /\ call.done
    /\ Len(call.args[1]) = 3
    /\ PositiveStart(call.args[1][1])
    /\ PositiveStart(call.args[1][2])
    /\ Unparseable(call.args[1][3])
    /\ call.result[1] = call.args[1][3]

RECURSIVE StripLeadingSeparators(_)
StripLeadingSeparators(text) ==
    IF text # <<>> /\ text[1] = "/" THEN StripLeadingSeparators(Tail(text)) ELSE text

RECURSIVE StripTrailingSeparators(_)
StripTrailingSeparators(text) ==
    IF text # <<>> /\ text[Len(text)] = "/"
    THEN StripTrailingSeparators(SubSeq(text, 1, Len(text) - 1)) ELSE text

\* C28: get_s3_path puts exactly one separator between the prefix and the
\* relative path, however many separators the prefix ends with and the
\* relative path starts with.
C28_ExactlyOneSeparator ==
    (call.op = "get_s3_path" /\ call.done) =>
       call.result = StripTrailingSeparators(call.args[1]) \o <<"/">>
                        \o StripLeadingSeparators(call.args[2])

(***************************************************************************)
(* Properties of resuming                                                  *)
(***************************************************************************)
\* main.py 159: the loaded snapshot carries parser counters
ParserResumeCalled ==
    IsTruthy(previous_state) /\ HasKey(previous_state, "total_packets_processed")

SnapshotCountersTaken ==
    /\ total_packets_processed' = previous_state.total_packets_processed
    /\ total_bytes_processed' = previous_state.total_bytes_processed
    /\ total_files_processed' = previous_state.total_files_processed

\* C21: when the parser is resumed with a snapshot whose recorded output
\* size equals the artifact's size, resume_from_state returns true without
\* a warning; with a different size it still returns true (the mismatch is
\* logged) and parsing proceeds with the snapshot's counters; if the
\* artifact does not exist it returns false and every counter is unchanged.
C21_ParserResume ==
    [][ (ppc = "idle" /\ ppc' = "loop" /\ ParserResumeCalled) =>
          LET r == ESParser_resume_from_state(previous_state)
          IN  /\ (ts_dump_exists /\ Len(ts_dump) = previous_state.output_bytes_written) =>
                    /\ r.returns
                    /\ ~r.warned
                    /\ SnapshotCountersTaken
                    /\ handle_open'
              /\ (ts_dump_exists /\ Len(ts_dump) # previous_state.output_bytes_written) =>
                    /\ r.returns
                    /\ r.warned
                    /\ SnapshotCountersTaken
                    /\ handle_open'
              /\ ~ts_dump_exists =>
                    /\ ~r.returns
                    /\ ~r.warned
                    /\ handle_open'
                    /\ UNCHANGED <<total_packets_processed, total_bytes_processed,
                                   total_files_processed, output_bytes_written>> ]_vars

\* C21 witness: a second run parses on with the counters of a snapshot whose
\* recorded size is not the artifact's
C21_Witness ==
    /\ run = 2
    /\ ppc = "read"
    /\ ParserResumeCalled
    /\ size_at_open # previous_state.output_bytes_written
    /\ total_files_processed = previous_state.total_files_processed
    /\ total_files_processed > 0

\* the positions of a list kept by an order-preserving selection
KeptInOrder(selected, list, keep) ==
    \E f \in [DOMAIN selected -> DOMAIN list] :
       /\ \A i, j \in DOMAIN selected : i < j => f[i] < f[j]
       /\ \A i \in DOMAIN selected : selected[i] = list[f[i]]
       /\ \A k \in DOMAIN list : list[k] \in keep <=> \E i \in DOMAIN selected : f[i] = k

\* C22: S3Reader.resume_from_state with a snapshot carrying a downloaded-file
\* list sets the engine's list to exactly the entries of that list that
\* exist on local disk, in the snapshot's order, and seeds files_found_locally
\* and files_failed from the snapshot; with an empty snapshot it returns
\* false and changes nothing.
C22_ReaderResume ==
    [][ /\ (rpc = "ready" /\ rpc' = "start" /\ IsTruthy(previous_state)
              /\ HasKey(previous_state, "downloaded_files")) =>
              /\ S3Reader_resume_from_state(previous_state).returns
              /\ KeptInOrder(downloaded_files', previous_state.downloaded_files,
                             DOMAIN disk)
              /\ files_found_locally' = previous_state.files_found_locally
              /\ files_failed' = previous_state.files_failed
        /\ LET r == S3Reader_resume_from_state(NoState)
           IN  /\ ~r.returns
               /\ r.downloaded_files = downloaded_files
               /\ r.files_found_locally = files_found_locally
               /\ r.files_failed = files_failed ]_vars

\* C22 witness: a resumed engine kept one entry of the snapshot's list and
\* dropped another that is no longer on disk
C22_Witness ==
    /\ rpc = "start"
    /\ run = 2
    /\ HasKey(previous_state, "downloaded_files")
    /\ Len(previous_state.downloaded_files) >= 2
    /\ previous_state.downloaded_files[1] \notin DOMAIN disk
    /\ downloaded_files = Tail(previous_state.downloaded_files)

\* C30: after resume_from_state and download_files_parallel no local path is
\* more than once in the available list, whose length is at most the
\* manifest size N.
C30_NoDuplicatesAfterResume ==
    (rpc = "returned" /\ run > 1) =>
       /\ \A i, j \in DOMAIN returned : returned[i] = returned[j] => i = j
       /\ Len(returned) <= Len(files_to_download_map)

(***************************************************************************)
(* Properties of the buffered writer                                       *)
(***************************************************************************)
\* C29: for every sequence of payloads passed to _write_ts_chunk, of any
\* lengths, followed by _flush_buffer, the bytes written to the artifact are
\* the concatenation of the payloads in call order; before the flush the
\* artifact followed by the buffer is that concatenation; and a payload
\* longer than the capacity goes to the artifact after the bytes that were
\* buffered before it, the buffer being left empty.
C29_BufferedWriterKeepsOrder ==
    [][ call'.op = "_write_ts_chunk" =>
          /\ ts_dump' \o write_buffer' = Concat(call'.args)
          /\ call'.done => (ts_dump' = Concat(call'.args) /\ write_buffer' = <<>>)
          /\ output_bytes_written' = Len(ts_dump')
          /\ (Len(call'.args) > Len(call.args)
                /\ Len(call'.args[Len(call'.args)]) > buffer_size) =>
                /\ ts_dump' = ts_dump \o write_buffer \o call'.args[Len(call'.args)]
                /\ write_buffer' = <<>> ]_vars

\* C29 witness: with capacity 3, a payload of 1 byte was buffered, one of 4
\* bytes written directly after it, one of 3 bytes (the capacity) buffered
\* and flushed
C29_Witness ==
    /\ call.op = "_write_ts_chunk"
    /\ call.done
    /\ buffer_size = 3
    /\ Len(call.args) = 3
    /\ Len(call.args[1]) = 1
    /\ Len(call.args[2]) = 4
    /\ Len(call.args[3]) = 3
    /\ ts_dump = Concat(call.args)

(***************************************************************************)
(* Properties of the persisted snapshot                                    *)
(***************************************************************************)
\* C31: once the retrieval engine has saved the downloaded-file list and its
\* found-locally and failed counters to the sidecar, every snapshot the
\* parser writes to the same sidecar (the checkpoints and the final one)
\* still carries them.
C31_SnapshotKeepsEngineFields ==
    (resume /\ rpc = "returned" /\ returned # <<>>) =>
        LET snapshot == load_progress_state(state_file)
        IN  /\ IsTruthy(snapshot)
            /\ HasKey(snapshot, "downloaded_files")
            /\ HasKey(snapshot, "files_found_locally")
            /\ HasKey(snapshot, "files_failed")
            /\ snapshot.downloaded_files = returned
            /\ snapshot.files_found_locally = files_found_locally
            /\ snapshot.files_failed = files_failed

(***************************************************************************)
(* Properties of the worker pool                                           *)
(***************************************************************************)
\* the manifest entry was found in the temp directory and not submitted
CountedLocal(p) == p \notin SeqToSet(files_needing_download)

\* the entry's fetch task ended with a download
CountedDownloaded(p) ==
    \E i \in DOMAIN task : task[i].path = p /\ task[i].result = "True"

\* the entry's fetch task ended without a download
CountedFailed(p) ==
    \E i \in DOMAIN task :
       task[i].path = p /\ task[i].result \in {"False", "FileNotFoundError", "PermissionError"}

\* C32: download_files_parallel sorts and returns only after every
\* dispatched fetch task has reached a terminal outcome and has been
\* consumed, and on a fresh (non-resumed) run the outcomes partition the
\* manifest: files_found_locally + files downloaded + files_failed = N, each
\* manifest entry being counted in exactly one of the three.
C32_OutcomesPartitionManifest ==
    rpc = "returned" =>
        LET manifest == SeqToSet(files_to_download_map)
        IN  /\ Len(task) = Len(files_needing_download)
            /\ \A i \in DOMAIN task :
                  /\ task[i].st = "done"
                  /\ task[i].result # "none"
                  /\ i \in collected
                  /\ task[i].path = files_needing_download[i]
            /\ run = 1 =>
                  /\ files_found_locally + files_actually_downloaded + files_failed
                        = Len(files_to_download_map)
                  /\ files_found_locally = Cardinality({p \in manifest : CountedLocal(p)})
                  /\ files_actually_downloaded
                        = Cardinality({p \in manifest : CountedDownloaded(p)})
                  /\ files_failed = Cardinality({p \in manifest : CountedFailed(p)})
                  /\ \A p \in manifest :
                        /\ CountedLocal(p) \/ CountedDownloaded(p) \/ CountedFailed(p)
                        /\ ~(CountedLocal(p) /\ CountedDownloaded(p))
                        /\ ~(CountedLocal(p) /\ CountedFailed(p))
                        /\ ~(CountedDownloaded(p) /\ CountedFailed(p))
                  /\ Len(returned) = files_found_locally + files_actually_downloaded

\* C32 witness: a fresh run returned with one entry found locally, one
\* downloaded and one failed
C32_Witness ==
    /\ rpc = "returned"
    /\ run = 1
    /\ files_found_locally = 1
    /\ files_actually_downloaded = 1
    /\ files_failed = 1
    /\ Len(files_to_download_map) = 3

\* fetch tasks that have been taken by a worker and have not ended
InProgress == {i \in DOMAIN task : task[i].st = "sleeping"}

\* submitted tasks no worker has taken yet
Undispatched == {i \in DOMAIN task : task[i].st = "queued"}

Incremented(before, after, counted) == after = before + (IF counted THEN 1 ELSE 0)

\* C34: for every file of the list given to process_files exactly one of
\* total_files_processed, total_files_failed, total_files_skipped is
\* incremented, skipped exactly when the file is absent on disk and failed
\* when it exists but cannot be opened or errors mid-read; a failure or skip
\* of one file does not stop the processing of the following files, so when
\* process_files returns normally the three counters sum to the length of
\* the list.
C34_OneCounterPerFile ==
    /\ [][ IF Len(outcomes') = Len(outcomes) + 1
           THEN LET o == outcomes'[Len(outcomes')]
                    p == file_list[Len(outcomes')]
                IN  /\ o.result = "skipped" <=> p \notin DOMAIN disk
                    /\ (p \in DOMAIN disk
                          /\ (~disk[p].readable \/ o.read_error # "none")) =>
                          o.result = "failed"
                    /\ Incremented(total_files_processed, total_files_processed',
                                   o.result = "processed")
                    /\ Incremented(total_files_failed, total_files_failed',
                                   o.result = "failed")
                    /\ Incremented(total_files_skipped, total_files_skipped',
                                   o.result = "skipped")
                    /\ ppc' = "loop"
                    /\ file_idx' = file_idx + 1
           ELSE UNCHANGED <<total_files_processed, total_files_failed,
                            total_files_skipped>> ]_vars
    /\ [](ppc = "returned" =>
             /\ Len(outcomes) = Len(file_list)
             /\ total_files_processed + total_files_failed + total_files_skipped
                   = Len(file_list))

\* the record the parser is about to read has a payload of length zero
ZeroRecordNext ==
    /\ ppc = "read"
    /\ packets_in_file < Len(disk[CurrentPath].recs)
    /\ disk[CurrentPath].recs[packets_in_file + 1] = <<>>

C36_ManifestWalkTerminates ==
    /\ [][ (rpc = "prepare" /\ rpc' = "prepare") =>
              /\ start_utc_s <= current_utc
              /\ current_utc < end_utc_s
              /\ current_utc' >= current_utc + 1
              /\ Len(files_to_download_map') <= Len(files_to_download_map) + 1 ]_vars
    /\ [](/\ start_utc_s < end_utc_s
          /\ \A i, j \in DOMAIN files_to_download_map :
                files_to_download_map[i] = files_to_download_map[j] => i = j
          /\ Len(files_to_download_map) <= current_utc - start_utc_s
          /\ rpc = "ready" => Len(files_to_download_map) <= end_utc_s - start_utc_s)
    /\ <>(rpc = "ready")

\* C36 witness: the walk over a window of MaxSpan seconds that starts off a
\* 4-second boundary has ended after three iterations
C36_Witness ==
    /\ rpc = "ready"
    /\ start_utc_s % INTERVAL_S # 0
    /\ end_utc_s - start_utc_s = MaxSpan
    /\ Len(files_to_download_map) = 3
    /\ current_utc >= end_utc_s


(***************************************************************************)
(* Properties of a start after a completed run                             *)
(***************************************************************************)
\* C37: when the program is started with --resume and the snapshot it loads
\* has completed = true, the run ends at once with success: no manifest is
\* built, no fetch is attempted, no parser runs, and the output artifact,
\* the snapshot file and the temp directory are left as they were; nothing
\* happens after that exit
C37_CompletedRunExitsEarly ==
    /\ [][ (/\ run' = run + 1
            /\ IsTruthy(previous_state')
            /\ HasKey(previous_state', "completed")
            /\ previous_state'["completed"] = TRUE)
           => /\ rpc' = "exit0"
              /\ files_to_download_map' = <<>>
              /\ task' = <<>>
              /\ ppc' = "idle"
              /\ ts_dump' = ts_dump
              /\ ts_dump_exists' = ts_dump_exists
              /\ state_file' = state_file
              /\ disk' = disk ]_vars
    /\ [][ rpc # "exit0" ]_vars
    /\ [](rpc = "exit0" => /\ PreviousRunCompleted(previous_state)
                           /\ files_to_download_map = <<>>
                           /\ task = <<>>
                           /\ ~handle_open)

\* C37 witness: the second run has ended early, the artifact of the first
\* run holding bytes and the snapshot saying completed
C37_Witness ==
    /\ rpc = "exit0"
    /\ run = 2
    /\ ts_dump # <<>>
    /\ state_file # NoState
    /\ HasKey(load_progress_state(state_file), "completed")


(***************************************************************************)
(* Properties of the write buffer's position                               *)
(***************************************************************************)
\* C38: in every reachable state 0 <= _buffer_position <= buffer_size; when
\* _write_ts_chunk returns and buffer_size > 0, _buffer_position is below
\* buffer_size; a _flush_buffer made while the handle is open leaves
\* _buffer_position at 0, and so does a normal return of process_files
C38_WriteBufferBound ==
    /\ [][ (/\ ppc = "read"
            /\ buffer_size > 0
            /\ total_bytes_processed' > total_bytes_processed + ES_HEADER_SIZE_BYTES)
           => /\ 0 <= buffer_position'
              /\ buffer_position' < buffer_size ]_vars
    /\ [](/\ 0 <= buffer_position
          /\ buffer_position <= buffer_size
          /\ handle_open => FlushBuffer(Writer).pos = 0
          /\ ppc = "returned" => buffer_position = 0)

\* C38 witness: a record's payload has been copied to a buffer of two bytes
\* and _write_ts_chunk returned with one byte of it still free
C38_Witness ==
    /\ ppc = "read"
    /\ handle_open
    /\ buffer_size = 2
    /\ buffer_position = 1
    /\ packets_in_file > 0


(***************************************************************************)
(* Properties of a write without an open handle                            *)
(***************************************************************************)
\* C39: a call of _write_ts_chunk made while output_file_handle is absent
\* or closed raises an error and changes no state: nothing is written to
\* the artifact, and _write_buffer, _buffer_position and
\* output_bytes_written keep their values
C39_ClosedHandleWriteRaises ==
    [][ (~handle_open /\ call'.args # call.args)
        => /\ call'.done
           /\ call'.result = <<"RuntimeError">>
           /\ ts_dump' = ts_dump
           /\ write_buffer' = write_buffer
           /\ buffer_position' = buffer_position
           /\ output_bytes_written' = output_bytes_written
           /\ handle_open' = handle_open ]_vars

\* C39 witness: the handle was closed with bytes pending in the buffer and
\* the call made after that, with a payload of two bytes, has raised
C39_Witness ==
    /\ ~handle_open
    /\ call.done
    /\ call.args # <<>>
    /\ Len(call.args[Len(call.args)]) = 2
    /\ call.result = <<"RuntimeError">>
    /\ buffer_position > 0
    /\ ts_dump # <<>>

====
